---- MODULE Spec2Model ----
(***************************************************************************)
(* Model of MeteringProcessor (src/src/metering_processor.py): the state   *)
(* file kept in S3 (cursor and per-contract ledger), the delivery loops    *)
(* send_to_clazar / retry_error_contracts, and the driver process_month /  *)
(* process_next_month.                                                     *)
(*                                                                         *)
(* Python dicts are functions whose DOMAIN is the set of keys present,     *)
(* Python lists are sequences, None is the empty tuple.  The fields        *)
(* last_updated / last_retry_time hold datetime.now() and are never read   *)
(* by the program; they are not part of the modelled document.             *)
(***************************************************************************)
EXTENDS Integers, Sequences, FiniteSets, TLC

(***************************************************************************)
(* Bounds of the model.                                                    *)
(***************************************************************************)
\* largest value of the MAX_RETRIES setting a run is started with
MaxRetriesBound == 1
\* number of months, counted from the default start month, that the
\* usage export can declare complete
NumMonths == 2

(***************************************************************************)
(* Python values.                                                          *)
(***************************************************************************)
None == <<>>
EmptyDict == <<>>

Has(d, k) == k \in DOMAIN d

Put(d, k, v) == [x \in (DOMAIN d) \cup {k} |-> IF x = k THEN v ELSE d[x]]

Del(d, k) == [x \in (DOMAIN d) \ {k} |-> d[x]]

Contains(list, v) == \E i \in 1..Len(list) : list[i] = v

\* bool(v) of "if v:" for a list, a dict or None
Truthy(v) == v # None

\* bool(s) of "if s:" for a string argument; a None default is written ""
TruthyStr(s) == s # ""

(***************************************************************************)
(* Keys of the state document.                                             *)
(***************************************************************************)
DigitChar == <<"0", "1", "2", "3", "4", "5", "6", "7", "8", "9">>

Digit(n) == DigitChar[(n % 10) + 1]

\* get_service_key: the three parts joined with ":" (the parts hold no ":")
get_service_key(service_name, environment_type, plan_id) ==
    <<service_name, ":", environment_type, ":", plan_id>>

\* get_month_key: f"{year:04d}-{month:02d}", a sequence of characters
get_month_key(year, month) ==
    << Digit(year \div 1000), Digit(year \div 100), Digit(year \div 10), Digit(year),
       "-", Digit(month \div 10), Digit(month) >>

CharValue(c) == CHOOSE n \in 0..9 : DigitChar[n + 1] = c

RECURSIVE ParseInt(_)
\* int(s) for a sequence of digit characters
ParseInt(s) ==
    IF Len(s) = 0 THEN 0
    ELSE 10 * ParseInt(SubSeq(s, 1, Len(s) - 1)) + CharValue(s[Len(s)])

\* year, month = map(int, s.split('-'))
ParseMonthKey(s) ==
    LET dash == CHOOSE i \in 1..Len(s) : s[i] = "-"
    IN  << ParseInt(SubSeq(s, 1, dash - 1)), ParseInt(SubSeq(s, dash + 1, Len(s))) >>

(***************************************************************************)
(* The S3 bucket: object key -> content.                                   *)
(***************************************************************************)
state_file_path == "metering_state.json"
usage_data_state_key == "omnistrate-metering/last_success_export.json"

\* the content of an object that json.loads rejects
NotJson == Put(EmptyDict, <<"not json">>, <<>>)

\* load_state returning whatever the object holds, parsed or not
load_state_unparsed(bucket) ==
    IF Has(bucket, state_file_path) THEN bucket[state_file_path] ELSE EmptyDict

\* load_state: the parsed document, {} when the object does not exist or
\* json.loads rejects its content
load_state(bucket) ==
    IF Has(bucket, state_file_path) /\ bucket[state_file_path] # NotJson
    THEN bucket[state_file_path]
    ELSE EmptyDict

\* save_state: put_object of the whole document
save_state(bucket, state) == Put(bucket, state_file_path, state)

\* load_usage_data_state: the parsed export document, {} when the object
\* is missing or cannot be parsed
load_usage_data_state(bucket) ==
    IF Has(bucket, usage_data_state_key) /\ bucket[usage_data_state_key] # NotJson
    THEN bucket[usage_data_state_key]
    ELSE EmptyDict

(***************************************************************************)
(* Ledger operations.  Each takes the bucket and returns the bucket after  *)
(* its load_state ... save_state.                                          *)
(***************************************************************************)
\* state[service_key][field][month_key], [] when any level is missing
MonthList(state, service_key, field, month_key) ==
    IF /\ Has(state, service_key)
       /\ Has(state[service_key], field)
       /\ Has(state[service_key][field], month_key)
    THEN state[service_key][field][month_key]
    ELSE <<>>

\* is_contract_month_processed answering True for every contract
always_processed(bucket, service_key, contract_id, year, month) == TRUE

\* is_contract_month_processed looking at the error entries only
in_error_contracts_only(bucket, service_key, contract_id, year, month) ==
    \E i \in 1..Len(MonthList(load_state(bucket), service_key, "error_contracts",
                              get_month_key(year, month))) :
       MonthList(load_state(bucket), service_key, "error_contracts",
                 get_month_key(year, month))[i]["contract_id"] = contract_id

\* is_contract_month_processed looking at the success entries only
in_success_contracts_only(bucket, service_key, contract_id, year, month) ==
    Contains(MonthList(load_state(bucket), service_key, "success_contracts",
                       get_month_key(year, month)), contract_id)

is_contract_month_processed(bucket, service_key, contract_id, year, month) ==
    LET state == load_state(bucket)
        month_key == get_month_key(year, month)
    IN  IF ~Has(state, service_key) THEN FALSE
        ELSE \/ /\ Has(state[service_key], "success_contracts")
                /\ Has(state[service_key]["success_contracts"], month_key)
                /\ Contains(state[service_key]["success_contracts"][month_key], contract_id)
             \/ /\ Has(state[service_key], "error_contracts")
                /\ Has(state[service_key]["error_contracts"], month_key)
                /\ \E i \in 1..Len(state[service_key]["error_contracts"][month_key]) :
                      state[service_key]["error_contracts"][month_key][i]["contract_id"] = contract_id

\* mark_contract_month_processed that also drops the error entry of the contract
mark_processed_removing_error(bucket, service_key, contract_id, year, month) ==
    LET state == load_state(bucket)
        month_key == get_month_key(year, month)
        svc0 == IF Has(state, service_key) THEN state[service_key] ELSE EmptyDict
        succ0 == IF Has(svc0, "success_contracts") THEN svc0["success_contracts"] ELSE EmptyDict
        list0 == IF Has(succ0, month_key) THEN succ0[month_key] ELSE <<>>
        list1 == IF Contains(list0, contract_id) THEN list0 ELSE Append(list0, contract_id)
        svc1 == Put(svc0, "success_contracts", Put(succ0, month_key, list1))
        svc2 == IF Has(svc1, "error_contracts") /\ Has(svc1["error_contracts"], month_key)
                THEN Put(svc1, "error_contracts",
                         Put(svc1["error_contracts"], month_key,
                             SelectSeq(svc1["error_contracts"][month_key],
                                       LAMBDA e : e["contract_id"] # contract_id)))
                ELSE svc1
    IN  save_state(bucket, Put(state, service_key, svc2))

\* mark_contract_month_processed that saves nothing
mark_nothing(bucket, service_key, contract_id, year, month) == bucket

mark_contract_month_processed(bucket, service_key, contract_id, year, month) ==
    LET state == load_state(bucket)
        month_key == get_month_key(year, month)
        svc0 == IF Has(state, service_key) THEN state[service_key] ELSE EmptyDict
        succ0 == IF Has(svc0, "success_contracts") THEN svc0["success_contracts"] ELSE EmptyDict
        list0 == IF Has(succ0, month_key) THEN succ0[month_key] ELSE <<>>
        list1 == IF Contains(list0, contract_id) THEN list0 ELSE Append(list0, contract_id)
    IN  save_state(bucket,
            Put(state, service_key, Put(svc0, "success_contracts", Put(succ0, month_key, list1))))

\* NewErrorEntry storing the number of attempts made instead of the retries
new_entry_counting_attempts(contract_id, errors, code, message, payload, retry_count) ==
    LET e0 == [contract_id |-> contract_id, errors |-> errors,
               retry_count |-> retry_count + 1]
        e1 == IF TruthyStr(code) THEN Put(e0, "code", code) ELSE e0
        e2 == IF TruthyStr(message) THEN Put(e1, "message", message) ELSE e1
    IN  IF Truthy(payload) THEN Put(e2, "payload", payload) ELSE e2

\* NewErrorEntry that does not attach the payload
new_entry_without_payload(contract_id, errors, code, message, payload, retry_count) ==
    LET e0 == [contract_id |-> contract_id, errors |-> errors, retry_count |-> retry_count]
        e1 == IF TruthyStr(code) THEN Put(e0, "code", code) ELSE e0
    IN  IF TruthyStr(message) THEN Put(e1, "message", message) ELSE e1

\* the entry written for a contract that has no error entry yet
NewErrorEntry(contract_id, errors, code, message, payload, retry_count) ==
    LET e0 == [contract_id |-> contract_id, errors |-> errors, retry_count |-> retry_count]
        e1 == IF TruthyStr(code) THEN Put(e0, "code", code) ELSE e0
        e2 == IF TruthyStr(message) THEN Put(e1, "message", message) ELSE e1
    IN  IF Truthy(payload) THEN Put(e2, "payload", payload) ELSE e2

\* the update of an existing error entry taking code, message and payload
\* from the call even when the call gives none
updated_entry_replacing_all(existing_error, errors, code, message, payload, retry_count) ==
    LET e0 == Put(existing_error, "errors", existing_error["errors"] \o errors)
        e1 == IF TruthyStr(code) THEN Put(e0, "code", code) ELSE Del(e0, "code")
        e2 == IF TruthyStr(message) THEN Put(e1, "message", message) ELSE Del(e1, "message")
        e3 == IF Truthy(payload) THEN Put(e2, "payload", payload) ELSE Del(e2, "payload")
    IN  Put(e3, "retry_count", retry_count)

\* the update of an existing error entry that leaves retry_count as it was
updated_entry_keeping_retry_count(existing_error, errors, code, message, payload, retry_count) ==
    LET e0 == Put(existing_error, "errors", existing_error["errors"] \o errors)
        e1 == IF TruthyStr(code) THEN Put(e0, "code", code) ELSE e0
        e2 == IF TruthyStr(message) THEN Put(e1, "message", message) ELSE e1
    IN  IF Truthy(payload) THEN Put(e2, "payload", payload) ELSE e2

\* the update of an existing error entry
UpdatedErrorEntry(existing_error, errors, code, message, payload, retry_count) ==
    LET e0 == Put(existing_error, "errors", existing_error["errors"] \o errors)
        e1 == IF TruthyStr(code) THEN Put(e0, "code", code) ELSE e0
        e2 == IF TruthyStr(message) THEN Put(e1, "message", message) ELSE e1
        e3 == IF Truthy(payload) THEN Put(e2, "payload", payload) ELSE e2
    IN  Put(e3, "retry_count", retry_count)

mark_contract_month_error(bucket, service_key, contract_id, year, month, errors, code, message, payload, retry_count) ==
    LET state == load_state(bucket)
        month_key == get_month_key(year, month)
        svc0 == IF Has(state, service_key) THEN state[service_key] ELSE EmptyDict
        errs0 == IF Has(svc0, "error_contracts") THEN svc0["error_contracts"] ELSE EmptyDict
        list0 == IF Has(errs0, month_key) THEN errs0[month_key] ELSE <<>>
        hits == {i \in 1..Len(list0) : list0[i]["contract_id"] = contract_id}
        list1 == IF hits # {}
                 THEN LET first == CHOOSE i \in hits : \A j \in hits : i <= j
                      IN  [list0 EXCEPT ![first] =
                              UpdatedErrorEntry(list0[first], errors, code, message,
                                                payload, retry_count)]
                 ELSE Append(list0, NewErrorEntry(contract_id, errors, code, message,
                                                  payload, retry_count))
    IN  save_state(bucket,
            Put(state, service_key, Put(svc0, "error_contracts", Put(errs0, month_key, list1))))

RECURSIVE FilterSeq(_, _)
\* [x for x in list if Keep[x]], Keep being the set of kept values
FilterSeq(list, Keep) ==
    IF Len(list) = 0 THEN <<>>
    ELSE IF Head(list) \in Keep THEN <<Head(list)>> \o FilterSeq(Tail(list), Keep)
         ELSE FilterSeq(Tail(list), Keep)

\* get_error_contracts_for_retry without the retry_count condition
all_error_contracts(bucket, service_key, year, month, max_retries) ==
    MonthList(load_state(bucket), service_key, "error_contracts", get_month_key(year, month))

get_error_contracts_for_retry(bucket, service_key, year, month, max_retries) ==
    LET state == load_state(bucket)
        list0 == MonthList(state, service_key, "error_contracts", get_month_key(year, month))
    IN  FilterSeq(list0,
            {list0[i] : i \in {j \in 1..Len(list0) :
                (IF Has(list0[j], "retry_count") THEN list0[j]["retry_count"] ELSE 0) < max_retries}})

\* remove_error_contract dropping the error entries of every month
remove_error_contracts_of_service(bucket, service_key, contract_id, year, month) ==
    LET state == load_state(bucket)
    IN  IF Has(state, service_key) /\ Has(state[service_key], "error_contracts")
        THEN save_state(bucket,
                 Put(state, service_key, Put(state[service_key], "error_contracts", EmptyDict)))
        ELSE bucket

\* remove_error_contract leaving the error entry in place
keep_error_contract(bucket, service_key, contract_id, year, month) == bucket

remove_error_contract(bucket, service_key, contract_id, year, month) ==
    LET state == load_state(bucket)
        month_key == get_month_key(year, month)
    IN  IF /\ Has(state, service_key)
           /\ Has(state[service_key], "error_contracts")
           /\ Has(state[service_key]["error_contracts"], month_key)
        THEN LET errs0 == state[service_key]["error_contracts"]
                 list0 == errs0[month_key]
                 list1 == FilterSeq(list0,
                             {list0[i] : i \in {j \in 1..Len(list0) :
                                 list0[j]["contract_id"] # contract_id}})
                 errs1 == IF Len(list1) = 0 THEN Del(errs0, month_key)
                          ELSE Put(errs0, month_key, list1)
             IN  save_state(bucket,
                     Put(state, service_key, Put(state[service_key], "error_contracts", errs1)))
        ELSE bucket

(***************************************************************************)
(* Cursor.                                                                 *)
(***************************************************************************)
get_last_processed_month(bucket, service_key) ==
    LET state == load_state(bucket)
    IN  IF ~Has(state, service_key) THEN None
        ELSE IF ~Has(state[service_key], "last_processed_month") THEN None
        ELSE IF ~Truthy(state[service_key]["last_processed_month"]) THEN None
        ELSE ParseMonthKey(state[service_key]["last_processed_month"])

update_last_processed_month(bucket, service_key, year, month) ==
    LET state == load_state(bucket)
        svc0 == IF Has(state, service_key) THEN state[service_key] ELSE EmptyDict
    IN  save_state(bucket,
            Put(state, service_key, Put(svc0, "last_processed_month", get_month_key(year, month))))

(***************************************************************************)
(* Watermark: the latest month with complete usage data.                   *)
(***************************************************************************)
IsLeap(year) == (year % 4 = 0 /\ year % 100 # 0) \/ year % 400 = 0

\* calendar.monthrange(year, month)[1]
DaysInMonth(year, month) ==
    IF month = 2 THEN (IF IsLeap(year) THEN 29 ELSE 28)
    ELSE IF month \in {4, 6, 9, 11} THEN 30 ELSE 31

\* datetime.strptime(s, '%Y-%m-%dT%H:%M:%SZ'); the string is written as
\* its six numeric fields, and a field out of range raises ValueError
strptime(s) ==
    IF /\ Len(s) = 6
       /\ s[2] \in 1..12
       /\ s[3] \in 1..DaysInMonth(s[1], s[2])
       /\ s[4] \in 0..23 /\ s[5] \in 0..59 /\ s[6] \in 0..59
    THEN [ok |-> TRUE, year |-> s[1], month |-> s[2], day |-> s[3],
          hour |-> s[4], minute |-> s[5], second |-> s[6]]
    ELSE [ok |-> FALSE]

get_latest_month_with_complete_usage_data(bucket, service_key) ==
    LET state == load_usage_data_state(bucket)
    IN  IF ~Truthy(state) THEN None
        ELSE IF ~Has(state, service_key) THEN None
        ELSE IF ~Has(state[service_key], "last_processed_to") THEN None
        ELSE IF ~Truthy(state[service_key]["last_processed_to"]) THEN None
        ELSE LET last_processed_to == strptime(state[service_key]["last_processed_to"])
             IN  IF ~last_processed_to.ok THEN None
                 ELSE LET last_day_of_the_month ==
                              DaysInMonth(last_processed_to.year, last_processed_to.month)
                      IN  IF \/ last_processed_to.day # last_day_of_the_month
                             \/ last_processed_to.minute # 59
                          THEN IF last_processed_to.month = 1
                               THEN <<last_processed_to.year - 1, 12>>
                               ELSE <<last_processed_to.year, last_processed_to.month - 1>>
                          ELSE <<last_processed_to.year, last_processed_to.month>>

\* get_next_month_to_process starting from the default whatever is stored
next_month_from_default(bucket, service_key, default_start_month) ==
    LET latest == get_latest_month_with_complete_usage_data(bucket, service_key)
    IN  IF latest = None THEN None
        ELSE LET next == default_start_month
             IN  IF \/ next[1] > latest[1]
                    \/ (next[1] = latest[1] /\ next[2] > latest[2])
                 THEN None
                 ELSE next

\* get_next_month_to_process without the December rollover
next_month_no_rollover(bucket, service_key, default_start_month) ==
    LET last_processed == get_last_processed_month(bucket, service_key)
        latest == get_latest_month_with_complete_usage_data(bucket, service_key)
    IN  IF latest = None THEN None
        ELSE LET next == IF last_processed = None THEN default_start_month
                         ELSE <<last_processed[1], last_processed[2] + 1>>
             IN  IF \/ next[1] > latest[1]
                    \/ (next[1] = latest[1] /\ next[2] > latest[2])
                 THEN None
                 ELSE next

\* get_next_month_to_process comparing the month numbers only
next_month_ignoring_year(bucket, service_key, default_start_month) ==
    LET last_processed == get_last_processed_month(bucket, service_key)
        latest == get_latest_month_with_complete_usage_data(bucket, service_key)
    IN  IF latest = None THEN None
        ELSE LET next == IF last_processed = None THEN default_start_month
                         ELSE IF last_processed[2] = 12
                              THEN <<last_processed[1] + 1, 1>>
                              ELSE <<last_processed[1], last_processed[2] + 1>>
             IN  IF next[2] > latest[2] THEN None ELSE next

get_next_month_to_process(bucket, service_key, default_start_month) ==
    LET last_processed == get_last_processed_month(bucket, service_key)
        latest == get_latest_month_with_complete_usage_data(bucket, service_key)
    IN  IF latest = None THEN None
        ELSE LET next == IF last_processed = None THEN default_start_month
                         ELSE IF last_processed[2] = 12
                              THEN <<last_processed[1] + 1, 1>>
                              ELSE <<last_processed[1], last_processed[2] + 1>>
             IN  IF \/ next[1] > latest[1]
                    \/ (next[1] = latest[1] /\ next[2] > latest[2])
                 THEN None
                 ELSE next

(***************************************************************************)
(* Aggregation.  A dict with insertion order is a sequence of              *)
(* [key, value] items with distinct keys.                                  *)
(***************************************************************************)
ItemIndex(items, key) ==
    IF \E i \in 1..Len(items) : items[i].key = key
    THEN CHOOSE i \in 1..Len(items) : items[i].key = key
    ELSE 0

\* d[key] = value on an ordered dict
SetItem(items, key, value) ==
    IF ItemIndex(items, key) = 0 THEN Append(items, [key |-> key, value |-> value])
    ELSE [items EXCEPT ![ItemIndex(items, key)].value = value]

GetItem(items, key, default) ==
    IF ItemIndex(items, key) = 0 THEN default ELSE items[ItemIndex(items, key)].value

RECURSIVE Concat(_)
\* all_usage_records.extend(...) over the files read
Concat(files) ==
    IF Len(files) = 0 THEN <<>> ELSE Head(files) \o Concat(Tail(files))

\* a non-negative number whole + tenths / 10
Float(whole, tenths) == [whole |-> whole, tenths |-> tenths]

\* record.get('value', 0): a record of the model holds the whole part of
\* the number in "value" and its tenths, when it has any, in "tenths"
ValueOf(record) ==
    IF Has(record, "value")
    THEN Float(record["value"], IF Has(record, "tenths") THEN record["tenths"] ELSE 0)
    ELSE Float(0, 0)

\* int(value) of a non-negative number: the fraction is cut off
int(value) == value.whole

\* aggregate_usage_data assigning the value where the code adds it
RECURSIVE KeepLastInto(_, _)
KeepLastInto(aggregated_data, usage_records) ==
    IF Len(usage_records) = 0 THEN aggregated_data
    ELSE LET record == Head(usage_records)
             external_payer_id == IF Has(record, "externalPayerId")
                                  THEN record["externalPayerId"] ELSE ""
             dimension == IF Has(record, "dimension") THEN record["dimension"] ELSE ""
             value == ValueOf(record)
             key == <<external_payer_id, dimension>>
         IN  IF ~TruthyStr(external_payer_id) \/ ~TruthyStr(dimension)
             THEN KeepLastInto(aggregated_data, Tail(usage_records))
             ELSE KeepLastInto(SetItem(aggregated_data, key, int(value)), Tail(usage_records))

aggregate_keep_last(usage_records) == KeepLastInto(<<>>, usage_records)

\* aggregate_usage_data giving up at the first record with missing data
RECURSIVE UntilMalformedInto(_, _)
UntilMalformedInto(aggregated_data, usage_records) ==
    IF Len(usage_records) = 0 THEN aggregated_data
    ELSE LET record == Head(usage_records)
             external_payer_id == IF Has(record, "externalPayerId")
                                  THEN record["externalPayerId"] ELSE ""
             dimension == IF Has(record, "dimension") THEN record["dimension"] ELSE ""
             value == ValueOf(record)
             key == <<external_payer_id, dimension>>
         IN  IF ~TruthyStr(external_payer_id) \/ ~TruthyStr(dimension)
             THEN aggregated_data
             ELSE UntilMalformedInto(
                      SetItem(aggregated_data, key, GetItem(aggregated_data, key, 0) + int(value)),
                      Tail(usage_records))

aggregate_until_malformed(usage_records) == UntilMalformedInto(<<>>, usage_records)

RECURSIVE AggregateInto(_, _)
AggregateInto(aggregated_data, usage_records) ==
    IF Len(usage_records) = 0 THEN aggregated_data
    ELSE LET record == Head(usage_records)
             external_payer_id == IF Has(record, "externalPayerId")
                                  THEN record["externalPayerId"] ELSE ""
             dimension == IF Has(record, "dimension") THEN record["dimension"] ELSE ""
             value == ValueOf(record)
             key == <<external_payer_id, dimension>>
         IN  IF ~TruthyStr(external_payer_id) \/ ~TruthyStr(dimension)
             THEN AggregateInto(aggregated_data, Tail(usage_records))
             ELSE AggregateInto(
                      SetItem(aggregated_data, key, GetItem(aggregated_data, key, 0) + int(value)),
                      Tail(usage_records))

aggregate_usage_data(usage_records) == AggregateInto(<<>>, usage_records)

(***************************************************************************)
(* Custom dimensions.  A formula is [op, x, y] over the names of the       *)
(* evaluation context: "var" is x, "sub" is x - y, "floordiv" is x // y.   *)
(***************************************************************************)
ContextNames == {"memory_byte_hours", "storage_allocated_byte_hours", "cpu_core_hours"}

\* eval(formula, eval_context) followed by the check of the result:
\* ok is FALSE when eval raises or the result is negative
EvalFormula(formula, dimensions) ==
    LET x == GetItem(dimensions, formula.x, 0)
        y == GetItem(dimensions, formula.y, 0)
    IN  IF formula.x \notin ContextNames THEN [ok |-> FALSE, result |-> 0]
        ELSE IF formula.op = "var" THEN [ok |-> TRUE, result |-> x]
        ELSE IF formula.y \notin ContextNames THEN [ok |-> FALSE, result |-> 0]
        ELSE IF formula.op = "sub" THEN [ok |-> x - y >= 0, result |-> x - y]
        ELSE IF y = 0 THEN [ok |-> FALSE, result |-> 0]
        ELSE [ok |-> TRUE, result |-> x \div y]

RECURSIVE ContractIds(_)
\* the contract ids of the keys (contract_id, dimension), in insertion order
ContractIds(items) ==
    IF Len(items) = 0 THEN <<>>
    ELSE LET rest == ContractIds(SubSeq(items, 1, Len(items) - 1))
             contract_id == items[Len(items)].key[1]
         IN  IF Contains(rest, contract_id) THEN rest ELSE Append(rest, contract_id)

RECURSIVE DimensionsOf(_, _)
\* contract_data[contract_id]: dimension -> value
DimensionsOf(items, contract_id) ==
    IF Len(items) = 0 THEN <<>>
    ELSE LET rest == DimensionsOf(SubSeq(items, 1, Len(items) - 1), contract_id)
             last == items[Len(items)]
         IN  IF last.key[1] = contract_id THEN SetItem(rest, last.key[2], last.value)
             ELSE rest

RECURSIVE DropContract(_, _)
\* {k: v for k, v in transformed_data.items() if k[0] != contract_id}
DropContract(items, contract_id) ==
    IF Len(items) = 0 THEN <<>>
    ELSE IF Head(items).key[1] = contract_id THEN DropContract(Tail(items), contract_id)
         ELSE <<Head(items)>> \o DropContract(Tail(items), contract_id)

RECURSIVE apply_formulas_keep_earlier(_, _, _, _)
\* the inner loop leaving what it has written when a formula fails
apply_formulas_keep_earlier(transformed_data, contract_id, dimensions, formulas) ==
    IF Len(formulas) = 0 THEN transformed_data
    ELSE LET r == EvalFormula(Head(formulas).formula, dimensions)
         IN  IF r.ok
             THEN apply_formulas_keep_earlier(
                      SetItem(transformed_data, <<contract_id, Head(formulas).name>>, r.result),
                      contract_id, dimensions, Tail(formulas))
             ELSE transformed_data

RECURSIVE ApplyFormulas(_, _, _, _)
\* the inner loop over custom_dimensions for one contract
ApplyFormulas(transformed_data, contract_id, dimensions, formulas) ==
    IF Len(formulas) = 0 THEN transformed_data
    ELSE LET r == EvalFormula(Head(formulas).formula, dimensions)
         IN  IF r.ok
             THEN ApplyFormulas(
                      SetItem(transformed_data, <<contract_id, Head(formulas).name>>, r.result),
                      contract_id, dimensions, Tail(formulas))
             ELSE DropContract(transformed_data, contract_id)

RECURSIVE TransformContracts(_, _, _, _)
TransformContracts(transformed_data, contract_ids, aggregated_data, custom_dimensions) ==
    IF Len(contract_ids) = 0 THEN transformed_data
    ELSE TransformContracts(
             ApplyFormulas(transformed_data, Head(contract_ids),
                           DimensionsOf(aggregated_data, Head(contract_ids)), custom_dimensions),
             Tail(contract_ids), aggregated_data, custom_dimensions)

transform_dimensions(aggregated_data, custom_dimensions) ==
    IF ~Truthy(custom_dimensions) THEN aggregated_data
    ELSE TransformContracts(<<>>, ContractIds(aggregated_data), aggregated_data,
                            custom_dimensions)

(***************************************************************************)
(* Filtering and payloads.                                                 *)
(***************************************************************************)
\* filter_success_contracts keeping every contract, whatever the ledger holds
filter_nothing(aggregated_data, bucket, service_key, year, month) == aggregated_data

RECURSIVE filter_with_success_entry(_, _, _, _, _)
\* filter_success_contracts removing only the contracts that have a Success entry
filter_with_success_entry(aggregated_data, bucket, service_key, year, month) ==
    IF Len(aggregated_data) = 0 THEN <<>>
    ELSE LET rest == filter_with_success_entry(Tail(aggregated_data), bucket, service_key,
                                               year, month)
         IN  IF ~Contains(MonthList(load_state(bucket), service_key, "success_contracts",
                                    get_month_key(year, month)),
                          Head(aggregated_data).key[1])
             THEN <<Head(aggregated_data)>> \o rest
             ELSE rest

RECURSIVE filter_success_contracts(_, _, _, _, _)
filter_success_contracts(aggregated_data, bucket, service_key, year, month) ==
    IF Len(aggregated_data) = 0 THEN <<>>
    ELSE LET rest == filter_success_contracts(Tail(aggregated_data), bucket, service_key,
                                              year, month)
         IN  IF ~is_contract_month_processed(bucket, service_key,
                                             Head(aggregated_data).key[1], year, month)
             THEN <<Head(aggregated_data)>> \o rest
             ELSE rest

RECURSIVE StrInt(_)
\* str(n) for n >= 0
StrInt(n) == IF n < 10 THEN <<Digit(n)>> ELSE Append(StrInt(n \div 10), Digit(n))

cloud == "aws"

\* the request record of one (contract, dimension) item
RequestRecord(item, year, month) ==
    [cloud |-> cloud,
     contract_id |-> item.key[1],
     dimension |-> item.key[2],
     start_time |-> <<year, month, 1, 0, 0, 0>>,
     end_time |-> <<year, month, DaysInMonth(year, month), 23, 59, 59>>,
     quantity |-> StrInt(item.value)]

RECURSIVE RecordsOf(_, _, _, _)
\* contract_records[contract_id]
RecordsOf(items, contract_id, year, month) ==
    IF Len(items) = 0 THEN <<>>
    ELSE IF Head(items).key[1] = contract_id
         THEN <<RequestRecord(Head(items), year, month)>>
                  \o RecordsOf(Tail(items), contract_id, year, month)
         ELSE RecordsOf(Tail(items), contract_id, year, month)

\* contract_records.items(): contract id and payload, in insertion order
ContractRecords(aggregated_data, year, month) ==
    LET ids == ContractIds(aggregated_data)
    IN  [i \in 1..Len(ids) |->
            [contract_id |-> ids[i],
             payload |-> [request |-> RecordsOf(aggregated_data, ids[i], year, month)]]]

(***************************************************************************)
(* The metering API: what one requests.post can produce.                   *)
(***************************************************************************)
RespSuccess == [raises |-> "", status_code |-> 200,
                json |-> [results |-> << [status |-> "success"] >>]]

RespWarning == [raises |-> "", status_code |-> 200,
                json |-> [results |-> << [status |-> "warning"] >>]]

RespApiError == [raises |-> "", status_code |-> 200,
                 json |-> [results |-> << [errors |-> <<"dimension rejected">>,
                                           code |-> "INVALID_DIMENSION",
                                           message |-> "rejected"] >>]]

RespNoResults == [raises |-> "", status_code |-> 200, json |-> [detail |-> "accepted"]]

RespHttpError == [raises |-> "", status_code |-> 500, text |-> "HTTP 500: unavailable"]

RespTimeout == [raises |-> "RequestException", text |-> "timed out"]

Responses == {RespSuccess, RespWarning, RespApiError, RespNoResults, RespHttpError, RespTimeout}

\* HasErrors taking a status other than "success" for an error as well
has_errors_or_warning(results) ==
    \E i \in 1..Len(results) :
       \/ Has(results[i], "errors") /\ Truthy(results[i]["errors"])
       \/ Has(results[i], "status") /\ results[i]["status"] # "success"

\* the results carry a status other than "success" and no errors
HasWarning(results) ==
    /\ \E i \in 1..Len(results) :
          Has(results[i], "status") /\ results[i]["status"] # "success"
    /\ \A i \in 1..Len(results) :
          ~(Has(results[i], "errors") /\ Truthy(results[i]["errors"]))

RECURSIVE HasErrors(_)
\* a result carries a non-empty "errors"
HasErrors(results) ==
    IF Len(results) = 0 THEN FALSE
    ELSE IF Has(Head(results), "errors") /\ Truthy(Head(results)["errors"]) THEN TRUE
         ELSE HasErrors(Tail(results))

RECURSIVE ExtractErrors(_, _)
\* the loop that collects errors, error_code and error_message
ExtractErrors(results, acc) ==
    IF Len(results) = 0 THEN acc
    ELSE LET result == Head(results)
         IN  IF Has(result, "errors") /\ Truthy(result["errors"])
             THEN ExtractErrors(Tail(results),
                      [errors |-> acc.errors \o result["errors"],
                       error_code |-> IF Has(result, "code") THEN result["code"]
                                      ELSE "API_ERROR",
                       error_message |-> IF Has(result, "message") THEN result["message"]
                                         ELSE "Unknown error"])
             ELSE ExtractErrors(Tail(results), acc)

\* One requests.post and the checks made on its response, as far as the
\* branch taken: "success", "has_errors", "RequestException" or "Exception"
\* (with str(e) in text)
Post(resp) ==
    IF resp.raises # "" THEN [branch |-> resp.raises, text |-> resp.text]
    ELSE IF resp.status_code # 200 THEN [branch |-> "RequestException", text |-> resp.text]
    ELSE IF ~Has(resp.json, "results")
         THEN [branch |-> "Exception", text |-> "Unexpected response format from Clazar API"]
    ELSE IF HasErrors(resp.json["results"])
         THEN [branch |-> "has_errors",
               details |-> ExtractErrors(resp.json["results"],
                               [errors |-> <<>>, error_code |-> "API_ERROR",
                                error_message |-> "Unknown error"]),
               warning |-> HasWarning(resp.json["results"])]
    ELSE [branch |-> "success", warning |-> HasWarning(resp.json["results"])]

(***************************************************************************)
(* Inputs of the runs.                                                     *)
(***************************************************************************)
ServiceKey == get_service_key("Postgres", "PROD", "plan")

\* START_MONTH, the default start month
start_month == <<2024, 12>>

NextMonthOf(ym) == IF ym[2] = 12 THEN <<ym[1] + 1, 1>> ELSE <<ym[1], ym[2] + 1>>

RECURSIVE MonthAt(_)
\* the k-th calendar month counted from start_month
MonthAt(k) == IF k = 0 THEN start_month ELSE NextMonthOf(MonthAt(k - 1))

Months == {MonthAt(k) : k \in 0..(NumMonths - 1)}

\* values of last_processed_to: the last minute of a month, and a
\* moment in the middle of it
ExportStamps ==
    UNION {{ <<ym[1], ym[2], DaysInMonth(ym[1], ym[2]), 23, 59, 59>>,
             <<ym[1], ym[2], 15, 12, 30, 0>> } : ym \in Months}

StampBefore(a, b) ==
    \E i \in 1..6 : a[i] < b[i] /\ \A j \in 1..(i - 1) : a[j] = b[j]

UsageRecord(contract_id, dimension, value) ==
    [externalPayerId |-> contract_id, dimension |-> dimension, value |-> value]

\* What listing and reading the month's prefix can return (the records of
\* each file found): no file, an empty file, and two files with usage of
\* E1 and E2 and one record without externalPayerId
DriverListings ==
    { <<>>,
      << <<>> >>,
      << << UsageRecord("E1", "cpu_core_hours", 5), UsageRecord("E2", "cpu_core_hours", 3) >>,
         << UsageRecord("E1", "cpu_core_hours", 2),
            [dimension |-> "cpu_core_hours", value |-> 1] >> >> }

\* the same, and a later listing in which the usage of E1 has changed
Listings == DriverListings \cup { << << UsageRecord("E1", "cpu_core_hours", 4) >> >> }

\* the responses used where several months are processed
DriverResponses == {RespSuccess, RespWarning, RespApiError}

(***************************************************************************)
(* The backlog-draining variant, src/metering_processor.py.  Its state     *)
(* document has the layout of the other variant and it shares              *)
(* load_state, save_state, is_contract_month_processed,                    *)
(* mark_contract_month_processed, the cursor functions,                    *)
(* aggregate_usage_data and filter_success_contracts with it.  It has no   *)
(* retry phase, posts one request per month and reads the clock to find    *)
(* the month to process.                                                   *)
(***************************************************************************)
\* the largest max_months given to process_pending_months
MaxMonthsBound == 2

PrevMonthOf(ym) == IF ym[2] = 1 THEN <<ym[1] - 1, 12>> ELSE <<ym[1], ym[2] - 1>>

\* (a_year, a_month) >= (b_year, b_month) on tuples
TupleGe(a, b) == a[1] > b[1] \/ (a[1] = b[1] /\ a[2] >= b[2])

\* (current_date.replace(day=1) - timedelta(days=32)).replace(day=1):
\* 32 days before the first of the month, as (year, month)
TwoMonthsAgo(current_month) ==
    LET before == PrevMonthOf(current_month)
        left == 32 - DaysInMonth(before[1], before[2])
    IN  IF left <= 0 THEN before ELSE PrevMonthOf(before)

\* the variant's mark_contract_month_error: no payload, no retry_count
batch_mark_contract_month_error(bucket, service_key, contract_id, year, month, errors, code, message) ==
    LET state == load_state(bucket)
        month_key == get_month_key(year, month)
        svc0 == IF Has(state, service_key) THEN state[service_key] ELSE EmptyDict
        errs0 == IF Has(svc0, "error_contracts") THEN svc0["error_contracts"] ELSE EmptyDict
        list0 == IF Has(errs0, month_key) THEN errs0[month_key] ELSE <<>>
        hits == {i \in 1..Len(list0) : list0[i]["contract_id"] = contract_id}
        new0 == [contract_id |-> contract_id, errors |-> errors]
        new1 == IF TruthyStr(code) THEN Put(new0, "code", code) ELSE new0
        new2 == IF TruthyStr(message) THEN Put(new1, "message", message) ELSE new1
        list1 == IF hits # {}
                 THEN LET first == CHOOSE i \in hits : \A j \in hits : i <= j
                          e0 == Put(list0[first], "errors", list0[first]["errors"] \o errors)
                          e1 == IF TruthyStr(code) THEN Put(e0, "code", code) ELSE e0
                          e2 == IF TruthyStr(message) THEN Put(e1, "message", message) ELSE e1
                      IN  [list0 EXCEPT ![first] = e2]
                 ELSE Append(list0, new2)
    IN  save_state(bucket,
            Put(state, service_key, Put(svc0, "error_contracts", Put(errs0, month_key, list1))))

\* the variant's get_next_month_to_process, current_month being the
\* (year, month) of datetime.now
batch_get_next_month_to_process(bucket, service_key, current_month) ==
    LET last_processed == get_last_processed_month(bucket, service_key)
    IN  IF last_processed = None THEN TwoMonthsAgo(current_month)
        ELSE IF TupleGe(NextMonthOf(last_processed), current_month) THEN None
        ELSE NextMonthOf(last_processed)

\* what the API answers for one record of the request
BatchOutcomes == {"success", "warning", "error"}

BatchResult(contract_id, outcome) ==
    IF outcome = "error"
    THEN [contract_id |-> contract_id, errors |-> <<"dimension rejected">>,
          code |-> "INVALID_DIMENSION", message |-> "rejected"]
    ELSE [contract_id |-> contract_id, status |-> outcome]

BatchKinds == {"results", "no results", "RequestException"}

\* one requests.post of the variant: the request raises, or the body has
\* no "results", or it has one result per record of the request
BatchResponse(kind, aggregated_data, outcomes) ==
    IF kind = "RequestException" THEN [raises |-> "RequestException"]
    ELSE IF kind = "no results" THEN [raises |-> "", json |-> [detail |-> "accepted"]]
    ELSE [raises |-> "",
          json |-> [results |-> [i \in 1..Len(aggregated_data) |->
                        BatchResult(aggregated_data[i].key[1], outcomes[i])]]]

RECURSIVE BatchMarkErrors(_, _, _, _, _)
\* the loop over the results: mark_contract_month_error for each result
\* that carries errors
BatchMarkErrors(bucket, service_key, year, month, results) ==
    IF Len(results) = 0 THEN bucket
    ELSE LET result == Head(results)
             contract_id == IF Has(result, "contract_id") THEN result["contract_id"] ELSE ""
             marked == IF Has(result, "errors") /\ Truthy(result["errors"])
                          /\ TruthyStr(contract_id)
                       THEN batch_mark_contract_month_error(bucket, service_key, contract_id,
                                year, month, result["errors"],
                                IF Has(result, "code") THEN result["code"] ELSE "API_ERROR",
                                IF Has(result, "message") THEN result["message"]
                                ELSE "Unknown error")
                       ELSE bucket
         IN  BatchMarkErrors(marked, service_key, year, month, Tail(results))

RECURSIVE SuccessfulContracts(_)
\* successful_contracts, in the order the results name them
SuccessfulContracts(results) ==
    IF Len(results) = 0 THEN <<>>
    ELSE LET result == Head(results)
             rest == SuccessfulContracts(Tail(results))
             contract_id == IF Has(result, "contract_id") THEN result["contract_id"] ELSE ""
         IN  IF ~(Has(result, "errors") /\ Truthy(result["errors"])) /\ TruthyStr(contract_id)
             THEN <<contract_id>> \o FilterSeq(rest, {rest[i] : i \in 1..Len(rest)} \ {contract_id})
             ELSE rest

RECURSIVE MarkAllProcessed(_, _, _, _, _)
\* mark_contract_month_processed for each contract of a collection
MarkAllProcessed(bucket, service_key, year, month, contract_ids) ==
    IF Len(contract_ids) = 0 THEN bucket
    ELSE MarkAllProcessed(
             mark_contract_month_processed(bucket, service_key, Head(contract_ids), year, month),
             service_key, year, month, Tail(contract_ids))

\* len([r for r in results if "errors" in r and r["errors"]])
ErrorResults(results) ==
    Cardinality({i \in 1..Len(results) :
                    Has(results[i], "errors") /\ Truthy(results[i]["errors"])})

\* the variant's send_to_clazar reporting failure when a result has errors
batch_send_failing_on_errors(bucket, settings, service_key, aggregated_data, year, month, resp) ==
    IF Len(aggregated_data) = 0 THEN [bucket |-> bucket, result |-> TRUE, requested |-> FALSE]
    ELSE IF ~TruthyStr(settings.access_token) /\ ~settings.dry_run
    THEN [bucket |-> bucket, result |-> FALSE, requested |-> FALSE]
    ELSE IF settings.dry_run
    THEN [bucket |-> MarkAllProcessed(bucket, service_key, year, month,
                                      ContractIds(aggregated_data)),
          result |-> TRUE, requested |-> FALSE]
    ELSE IF resp.raises # "" THEN [bucket |-> bucket, result |-> FALSE, requested |-> TRUE]
    ELSE IF ~Has(resp.json, "results")
    THEN [bucket |-> bucket, result |-> FALSE, requested |-> TRUE]
    ELSE LET results == resp.json["results"]
             successful_contracts == SuccessfulContracts(results)
         IN  [bucket |-> MarkAllProcessed(
                             BatchMarkErrors(bucket, service_key, year, month, results),
                             service_key, year, month, successful_contracts),
              result |-> ErrorResults(results) = 0 /\ Len(successful_contracts) > 0,
              requested |-> TRUE]

\* the variant's send_to_clazar: the bucket it leaves, what it returns and
\* whether it posted the request.  The contracts of successful_contracts
\* are marked in the order the results name them.
batch_send_to_clazar(bucket, settings, service_key, aggregated_data, year, month, resp) ==
    IF Len(aggregated_data) = 0 THEN [bucket |-> bucket, result |-> TRUE, requested |-> FALSE]
    ELSE IF ~TruthyStr(settings.access_token) /\ ~settings.dry_run
    THEN [bucket |-> bucket, result |-> FALSE, requested |-> FALSE]
    ELSE IF settings.dry_run
    THEN [bucket |-> MarkAllProcessed(bucket, service_key, year, month,
                                      ContractIds(aggregated_data)),
          result |-> TRUE, requested |-> FALSE]
    ELSE IF resp.raises # "" THEN [bucket |-> bucket, result |-> FALSE, requested |-> TRUE]
    ELSE IF ~Has(resp.json, "results")
    THEN [bucket |-> bucket, result |-> FALSE, requested |-> TRUE]
    ELSE LET results == resp.json["results"]
             successful_contracts == SuccessfulContracts(results)
         IN  [bucket |-> MarkAllProcessed(
                             BatchMarkErrors(bucket, service_key, year, month, results),
                             service_key, year, month, successful_contracts),
              result |-> Len(successful_contracts) + ErrorResults(results) > 0,
              requested |-> TRUE]

\* the variant's process_month on the files listed, with the response the
\* API gives if a request is posted
batch_process_month(bucket, settings, service_key, year, month, listing, resp) ==
    LET all_usage_records == Concat(listing)
        aggregated_data == aggregate_usage_data(all_usage_records)
        filtered_data == filter_success_contracts(aggregated_data, bucket, service_key,
                                                  year, month)
    IN  IF Len(listing) = 0 \/ Len(all_usage_records) = 0 \/ Len(filtered_data) = 0
        THEN [bucket |-> bucket, result |-> TRUE, requested |-> FALSE]
        ELSE batch_send_to_clazar(bucket, settings, service_key, filtered_data,
                                  year, month, resp)

\* the contracts for which the response carries a result with errors
ErrorContractsOf(resp) ==
    IF resp.raises # "" \/ ~Has(resp.json, "results") THEN {}
    ELSE {resp.json["results"][i]["contract_id"] :
             i \in {j \in 1..Len(resp.json["results"]) :
                       /\ Has(resp.json["results"][j], "errors")
                       /\ Truthy(resp.json["results"][j]["errors"])
                       /\ Has(resp.json["results"][j], "contract_id")}}

\* the data process_month would send for the month
BatchFiltered(b, year, month, listing) ==
    filter_success_contracts(aggregate_usage_data(Concat(listing)), b, ServiceKey, year, month)

\* the months the clock shows during the runs
BatchClock == {MonthAt(k) : k \in 2..(MaxMonthsBound + 1)}

\* files of a month: none, an empty one, one with usage of E1 and E2
BatchListings ==
    { <<>>,
      << <<>> >>,
      << << UsageRecord("E1", "cpu_core_hours", 5), UsageRecord("E2", "cpu_core_hours", 3) >> >> }

VARIABLES
    bucket,     \* the S3 bucket: object key -> parsed content
    config,     \* settings of the processor: max_retries, dry_run, access_token, custom_dimensions
    pc,         \* where the runner is: idle, retry, list, send, finish
    frame,      \* locals of the call in progress
    posted,     \* the requests posted by the call in progress and their outcome, in order
    accepted    \* API side: <<year, month, contract_id>> -> number of success responses given

vars == <<bucket, config, pc, frame, posted, accepted>>

IdleFrame ==
    [entry |-> "", year |-> 0, month |-> 0,
     error_contracts |-> <<>>, contract_records |-> <<>>, i |-> 0,
     current_retry |-> 0, attempt |-> 0,
     all_success |-> TRUE, retry_success |-> TRUE, success |-> TRUE, result |-> TRUE,
     all_usage_records |-> <<>>, aggregated_data |-> <<>>, filtered_data |-> <<>>,
     send_called |-> FALSE, send_success |-> FALSE,
     next_month |-> None, files |-> <<>>, args |-> <<>>,
     state_at_entry |-> EmptyDict]

Init ==
    /\ bucket = EmptyDict
    /\ config \in [max_retries : 0..MaxRetriesBound, dry_run : {FALSE},
                   access_token : {"token"}, custom_dimensions : {EmptyDict}]
    /\ pc = "idle"
    /\ frame = IdleFrame
    /\ posted = <<>>
    /\ accepted = EmptyDict

(***************************************************************************)
(* retry_error_contracts (phase A).                                        *)
(***************************************************************************)
RetryCountOf(error_entry) ==
    IF Has(error_entry, "retry_count") THEN error_entry["retry_count"] ELSE 0

RECURSIVE SkipEntries(_, _, _, _)
\* The for loop from entry i up to the first entry for which a request is
\* made.  An entry without contract_id or payload is skipped by "continue";
\* an entry whose retry_count is not below max_retries runs no iteration of
\* the while loop, so that "if not success" sets all_success to False.
SkipEntries(error_contracts, i, all_success, max_retries) ==
    IF i > Len(error_contracts) THEN [i |-> i, all_success |-> all_success]
    ELSE IF ~(/\ Has(error_contracts[i], "contract_id")
              /\ TruthyStr(error_contracts[i]["contract_id"])
              /\ Has(error_contracts[i], "payload")
              /\ Truthy(error_contracts[i]["payload"]))
         THEN SkipEntries(error_contracts, i + 1, all_success, max_retries)
    ELSE IF ~(RetryCountOf(error_contracts[i]) < max_retries)
         THEN SkipEntries(error_contracts, i + 1, FALSE, max_retries)
    ELSE [i |-> i, all_success |-> all_success]

\* process_month up to the first request of retry_error_contracts
EnterProcessMonth(entry, year, month) ==
    LET error_contracts == get_error_contracts_for_retry(bucket, ServiceKey, year, month,
                                                         config.max_retries)
        first == SkipEntries(error_contracts, 1, TRUE, config.max_retries)
        f0 == [IdleFrame EXCEPT !.entry = entry, !.year = year, !.month = month,
                                !.state_at_entry = load_state(bucket)]
    IN  /\ posted' = <<>>
        /\ UNCHANGED <<bucket, config, accepted>>
        /\ IF first.i > Len(error_contracts)
           THEN /\ pc' = "list"
                /\ frame' = [f0 EXCEPT !.retry_success = first.all_success]
           ELSE /\ pc' = "retry"
                /\ frame' = [f0 EXCEPT !.error_contracts = error_contracts,
                                       !.i = first.i,
                                       !.all_success = first.all_success,
                                       !.current_retry = RetryCountOf(error_contracts[first.i])]

Accept(acc, year, month, contract_id) ==
    Put(acc, <<year, month, contract_id>>,
        IF Has(acc, <<year, month, contract_id>>) THEN acc[<<year, month, contract_id>>] + 1
        ELSE 1)

\* the end of the for-loop body for entry i: "if not success: all_success = False",
\* then the next entry or the return
RetryEntryDone(success, all_success) ==
    LET next == SkipEntries(frame.error_contracts, frame.i + 1, all_success /\ success,
                            config.max_retries)
    IN  IF next.i > Len(frame.error_contracts)
        THEN /\ pc' = "list"
             /\ frame' = [frame EXCEPT !.retry_success = next.all_success,
                                       !.all_success = TRUE,
                                       !.error_contracts = <<>>, !.i = 0,
                                       !.current_retry = 0]
        ELSE /\ pc' = "retry"
             /\ frame' = [frame EXCEPT !.all_success = next.all_success, !.i = next.i,
                                       !.current_retry =
                                           RetryCountOf(frame.error_contracts[next.i])]

RECURSIVE Pow2(_)
\* 2 ** k
Pow2(k) == IF k = 0 THEN 1 ELSE 2 * Pow2(k - 1)

\* the wait of send_to_clazar made before every attempt, the first included
wait_before_every_attempt(attempt) == Pow2(attempt)

\* the seconds send_to_clazar sleeps before the attempt
wait_time(attempt) == IF attempt > 0 THEN Pow2(attempt) ELSE 0

\* a request as kept in posted: r is what Post made of the response,
\* warning tells that the results had a status other than "success" and
\* no errors, wait is the time slept in the iteration before the request
Request(phase, contract_id, payload, r, wait) ==
    [phase |-> phase, contract_id |-> contract_id, payload |-> payload,
     outcome |-> r.branch, warning |-> "warning" \in DOMAIN r /\ r.warning,
     wait |-> wait]

\* one iteration of "while current_retry < max_retries" for the current
\* entry; the sleep of 2 ** current_retry is kept with the request that
\* follows it (in dry-run mode no request follows and the sleep is not kept)
RetryAttempt(resp) ==
    /\ pc = "retry"
    /\ LET error_entry == frame.error_contracts[frame.i]
           contract_id == error_entry["contract_id"]
           payload == error_entry["payload"]
           current_retry == frame.current_retry + 1
           max_retries == config.max_retries
           r == Post(resp)
           failed(errors, code, message) ==
               /\ bucket' = mark_contract_month_error(bucket, ServiceKey, contract_id,
                                frame.year, frame.month, errors, code, message,
                                payload, current_retry)
               /\ accepted' = accepted
               /\ IF current_retry >= max_retries
                  THEN RetryEntryDone(FALSE, FALSE)
                  ELSE /\ pc' = "retry"
                       /\ frame' = [frame EXCEPT !.current_retry = current_retry]
       IN  /\ UNCHANGED config
           /\ IF config.dry_run
              THEN /\ posted' = posted
                   /\ accepted' = accepted
                   /\ bucket' = mark_contract_month_processed(
                                    remove_error_contract(bucket, ServiceKey, contract_id,
                                                          frame.year, frame.month),
                                    ServiceKey, contract_id, frame.year, frame.month)
                   /\ RetryEntryDone(TRUE, frame.all_success)
              ELSE /\ posted' = Append(posted, Request("retry", contract_id, payload, r,
                                                    Pow2(current_retry)))
                   /\ IF r.branch = "success"
                      THEN /\ accepted' = Accept(accepted, frame.year, frame.month, contract_id)
                           /\ bucket' = mark_contract_month_processed(
                                            remove_error_contract(bucket, ServiceKey,
                                                contract_id, frame.year, frame.month),
                                            ServiceKey, contract_id, frame.year, frame.month)
                           /\ RetryEntryDone(TRUE, frame.all_success)
                      ELSE IF r.branch = "has_errors"
                      THEN failed(r.details.errors, r.details.error_code,
                                  r.details.error_message)
                      ELSE failed(<<r.text>>, "RETRY_ERROR", r.text)

(***************************************************************************)
(* process_month after phase A: read, aggregate, transform, filter.        *)
(***************************************************************************)
\* listing is what list_monthly_subscription_files and read_s3_json_file
\* return in this call
ListAndFilter(listing) ==
    /\ pc = "list"
    /\ UNCHANGED <<bucket, config, posted, accepted>>
    /\ LET subscription_files == listing
           all_usage_records == Concat(subscription_files)
           aggregated_data == aggregate_usage_data(all_usage_records)
           transformed == IF Truthy(config.custom_dimensions)
                          THEN transform_dimensions(aggregated_data, config.custom_dimensions)
                          ELSE aggregated_data
           filtered_data == filter_success_contracts(transformed, bucket, ServiceKey,
                                                     frame.year, frame.month)
           f0 == [frame EXCEPT !.all_usage_records = all_usage_records]
           f1 == [f0 EXCEPT !.aggregated_data = transformed]
           \* the call send_to_clazar(filtered_data, ...)
           f2 == [f1 EXCEPT !.filtered_data = filtered_data, !.send_called = TRUE]
       IN  IF ~Truthy(subscription_files)
           THEN pc' = "finish" /\ frame' = [f0 EXCEPT !.success = frame.retry_success]
           ELSE IF ~Truthy(all_usage_records)
           THEN pc' = "finish" /\ frame' = [f0 EXCEPT !.success = frame.retry_success]
           ELSE IF Truthy(config.custom_dimensions) /\ ~Truthy(transformed)
           THEN pc' = "finish" /\ frame' = [f1 EXCEPT !.success = FALSE]
           ELSE IF ~Truthy(filtered_data)
           THEN pc' = "finish" /\ frame' = [f1 EXCEPT !.success = frame.retry_success]
           \* send_to_clazar up to its first request
           ELSE IF ~TruthyStr(config.access_token) /\ ~config.dry_run
           THEN pc' = "finish" /\ frame' = [f2 EXCEPT !.send_success = FALSE,
                                                       !.success = frame.retry_success /\ FALSE]
           ELSE /\ pc' = "send"
                /\ frame' = [f2 EXCEPT
                       !.contract_records = ContractRecords(filtered_data, frame.year,
                                                            frame.month),
                       !.i = 1, !.attempt = 0, !.all_success = TRUE]

(***************************************************************************)
(* send_to_clazar (phase B).                                               *)
(***************************************************************************)
\* SendContractDone with process_month returning send_success alone
send_contract_done_ignoring_retry(success, all_success) ==
    LET all == all_success /\ success
    IN  IF frame.i = Len(frame.contract_records)
        THEN /\ pc' = "finish"
             /\ frame' = [frame EXCEPT !.send_success = all,
                                       !.success = all,
                                       !.all_success = TRUE, !.contract_records = <<>>,
                                       !.i = 0, !.attempt = 0]
        ELSE /\ pc' = "send"
             /\ frame' = [frame EXCEPT !.all_success = all, !.i = frame.i + 1,
                                       !.attempt = 0]

\* SendContractDone without "if not success: all_success = False"
send_contract_done_true(success, all_success) ==
    IF frame.i = Len(frame.contract_records)
    THEN /\ pc' = "finish"
         /\ frame' = [frame EXCEPT !.send_success = TRUE,
                                   !.success = frame.retry_success,
                                   !.all_success = TRUE, !.contract_records = <<>>,
                                   !.i = 0, !.attempt = 0]
    ELSE /\ pc' = "send"
         /\ frame' = [frame EXCEPT !.all_success = TRUE, !.i = frame.i + 1,
                                   !.attempt = 0]

\* the for-loop over the contracts starting again on the same contract
send_same_contract_again(success, all_success) ==
    /\ pc' = "send"
    /\ frame' = [frame EXCEPT !.attempt = 0]

\* the end of the for-loop body for contract i: "if not success: all_success = False",
\* then the next contract, or the return of send_to_clazar and of process_month
SendContractDone(success, all_success) ==
    LET all == all_success /\ success
    IN  IF frame.i = Len(frame.contract_records)
        THEN /\ pc' = "finish"
             /\ frame' = [frame EXCEPT !.send_success = all,
                                       !.success = frame.retry_success /\ all,
                                       !.all_success = TRUE, !.contract_records = <<>>,
                                       !.i = 0, !.attempt = 0]
        ELSE /\ pc' = "send"
             /\ frame' = [frame EXCEPT !.all_success = all, !.i = frame.i + 1,
                                       !.attempt = 0]

\* one iteration of "for attempt in range(max_retries + 1)" for the current contract
SendAttempt(resp) ==
    /\ pc = "send"
    /\ LET contract_id == frame.contract_records[frame.i].contract_id
           payload == frame.contract_records[frame.i].payload
           attempt == frame.attempt
           max_retries == config.max_retries
           r == Post(resp)
           failed(errors, code, message) ==
               /\ accepted' = accepted
               /\ IF attempt = max_retries
                  THEN /\ bucket' = mark_contract_month_error(bucket, ServiceKey, contract_id,
                                        frame.year, frame.month, errors, code, message,
                                        payload, attempt)
                       /\ SendContractDone(FALSE, FALSE)
                  ELSE /\ bucket' = bucket
                       /\ pc' = "send"
                       /\ frame' = [frame EXCEPT !.attempt = attempt + 1]
       IN  /\ UNCHANGED config
           /\ IF config.dry_run
              THEN /\ posted' = posted
                   /\ accepted' = accepted
                   /\ bucket' = mark_contract_month_processed(bucket, ServiceKey, contract_id,
                                                              frame.year, frame.month)
                   /\ SendContractDone(TRUE, frame.all_success)
              ELSE /\ posted' = Append(posted, Request("send", contract_id, payload, r,
                                                    wait_time(attempt)))
                   /\ IF r.branch = "success"
                      THEN /\ accepted' = Accept(accepted, frame.year, frame.month, contract_id)
                           /\ bucket' = mark_contract_month_processed(
                                            remove_error_contract(bucket, ServiceKey,
                                                contract_id, frame.year, frame.month),
                                            ServiceKey, contract_id, frame.year, frame.month)
                           /\ SendContractDone(TRUE, frame.all_success)
                      ELSE IF r.branch = "has_errors"
                      THEN failed(r.details.errors, r.details.error_code,
                                  r.details.error_message)
                      ELSE IF r.branch = "RequestException"
                      THEN failed(<<r.text>>, "NETWORK_ERROR", r.text)
                      ELSE failed(<<r.text>>, "UNEXPECTED_ERROR", r.text)

(***************************************************************************)
(* The entry points.                                                       *)
(***************************************************************************)
\* process_next_month that starts over from the default month when
\* get_next_month_to_process returns None
process_next_month_starting_over ==
    /\ pc = "idle"
    /\ LET next_month == get_next_month_to_process(bucket, ServiceKey, start_month)
       IN  IF next_month = None
           THEN /\ pc' = "idle"
                /\ frame' = [IdleFrame EXCEPT !.result = TRUE]
                /\ posted' = <<>>
                /\ bucket' = update_last_processed_month(bucket, ServiceKey,
                                                         start_month[1], start_month[2])
                /\ UNCHANGED <<config, accepted>>
           ELSE EnterProcessMonth("process_next_month", next_month[1], next_month[2])

\* process_next_month up to the first request (or up to its return when
\* there is no month to process)
ProcessNextMonth ==
    /\ pc = "idle"
    /\ LET next_month == get_next_month_to_process(bucket, ServiceKey, start_month)
       IN  IF next_month = None
           THEN /\ pc' = "idle"
                /\ frame' = [IdleFrame EXCEPT !.result = TRUE]
                /\ posted' = <<>>
                /\ UNCHANGED <<bucket, config, accepted>>
           ELSE EnterProcessMonth("process_next_month", next_month[1], next_month[2])

\* a direct call of process_month(year, month)
ProcessMonth(ym) ==
    /\ pc = "idle"
    /\ EnterProcessMonth("process_month", ym[1], ym[2])

\* process_next_month moving the cursor to the latest complete month
finish_at_watermark ==
    /\ pc = "finish"
    /\ pc' = "idle"
    /\ bucket' = IF frame.entry = "process_next_month" /\ frame.success
                 THEN LET latest == get_latest_month_with_complete_usage_data(bucket, ServiceKey)
                      IN  update_last_processed_month(bucket, ServiceKey, latest[1], latest[2])
                 ELSE bucket
    /\ frame' = [IdleFrame EXCEPT !.result = frame.success]
    /\ posted' = <<>>
    /\ UNCHANGED <<config, accepted>>

\* process_next_month updating the cursor whatever process_month returned
FinishAlways ==
    /\ pc = "finish"
    /\ pc' = "idle"
    /\ bucket' = IF frame.entry = "process_next_month"
                 THEN update_last_processed_month(bucket, ServiceKey, frame.year, frame.month)
                 ELSE bucket
    /\ frame' = [IdleFrame EXCEPT !.result = frame.success]
    /\ posted' = <<>>
    /\ UNCHANGED <<config, accepted>>

\* process_next_month leaving the cursor where it was
finish_without_cursor ==
    /\ pc = "finish"
    /\ pc' = "idle"
    /\ frame' = [IdleFrame EXCEPT !.result = frame.success]
    /\ posted' = <<>>
    /\ UNCHANGED <<bucket, config, accepted>>

\* the return of process_month, and the rest of process_next_month:
\* the cursor is updated only if process_month returned True
Finish ==
    /\ pc = "finish"
    /\ pc' = "idle"
    /\ bucket' = IF frame.entry = "process_next_month" /\ frame.success
                 THEN update_last_processed_month(bucket, ServiceKey, frame.year, frame.month)
                 ELSE bucket
    /\ frame' = [IdleFrame EXCEPT !.result = frame.success]
    /\ posted' = <<>>
    /\ UNCHANGED <<config, accepted>>

(***************************************************************************)
(* The environment between two runs.                                       *)
(***************************************************************************)
\* the usage export publishes a later last_processed_to
ExportAdvance(stamp) ==
    /\ pc = "idle"
    /\ LET doc == load_usage_data_state(bucket)
       IN  IF Has(doc, ServiceKey)
           THEN StampBefore(doc[ServiceKey]["last_processed_to"], stamp)
           ELSE TRUE
    /\ bucket' = Put(bucket, usage_data_state_key,
                     Put(EmptyDict, ServiceKey, [last_processed_to |-> stamp]))
    /\ UNCHANGED <<config, pc, frame, posted, accepted>>

\* the next run is started with another MAX_RETRIES
SetMaxRetries(max_retries) ==
    /\ pc = "idle"
    /\ max_retries # config.max_retries
    /\ config' = [config EXCEPT !.max_retries = max_retries]
    /\ UNCHANGED <<bucket, pc, frame, posted, accepted>>

\* the next run is started with the other DRY_RUN
SetDryRun(dry_run) ==
    /\ pc = "idle"
    /\ dry_run # config.dry_run
    /\ config' = [config EXCEPT !.dry_run = dry_run]
    /\ UNCHANGED <<bucket, pc, frame, posted, accepted>>

(***************************************************************************)
(* Spec: repeated process_next_month runs of one runner, the export        *)
(* advancing and MAX_RETRIES changing between runs.                        *)
(***************************************************************************)
Next ==
    \/ ProcessNextMonth
    \/ \E resp \in DriverResponses : RetryAttempt(resp)
    \/ \E listing \in DriverListings : ListAndFilter(listing)
    \/ \E resp \in DriverResponses : SendAttempt(resp)
    \/ Finish
    \/ \E stamp \in ExportStamps : ExportAdvance(stamp)
    \/ \E max_retries \in 0..MaxRetriesBound : SetMaxRetries(max_retries)

Spec == Init /\ [][Next]_vars

(***************************************************************************)
(* SpecCalls: process_next_month runs and direct process_month calls for   *)
(* the start month, real or dry-run.                                       *)
(***************************************************************************)
NextCalls ==
    \/ ProcessNextMonth
    \/ ProcessMonth(start_month)
    \/ \E resp \in DriverResponses : RetryAttempt(resp)
    \/ \E listing \in DriverListings : ListAndFilter(listing)
    \/ \E resp \in DriverResponses : SendAttempt(resp)
    \/ Finish
    \/ \E stamp \in ExportStamps : ExportAdvance(stamp)
    \/ \E max_retries \in 0..MaxRetriesBound : SetMaxRetries(max_retries)
    \/ \E dry_run \in BOOLEAN : SetDryRun(dry_run)

SpecCalls == Init /\ [][NextCalls]_vars

(***************************************************************************)
(* SpecMonth: repeated process_month calls for one month, with every       *)
(* response of the API, changing usage data, MAX_RETRIES and DRY_RUN.      *)
(***************************************************************************)
NextMonth ==
    \/ ProcessMonth(start_month)
    \/ \E resp \in Responses : RetryAttempt(resp)
    \/ \E listing \in Listings : ListAndFilter(listing)
    \/ \E resp \in Responses : SendAttempt(resp)
    \/ Finish
    \/ \E max_retries \in 0..MaxRetriesBound : SetMaxRetries(max_retries)
    \/ \E dry_run \in BOOLEAN : SetDryRun(dry_run)

SpecMonth == Init /\ [][NextMonth]_vars

(***************************************************************************)
(* SpecSettings: repeated process_month calls for one month by processors  *)
(* constructed with or without an access token and with or without custom  *)
(* dimensions.                                                             *)
(***************************************************************************)
\* DIMENSION<n>_NAME / DIMENSION<n>_FORMULA: "net_core_hours" fails for a
\* contract with more memory_byte_hours than cpu_core_hours (negative),
\* "cores_per_byte" for a contract without memory_byte_hours (division by zero)
NetCoreHours ==
    [name |-> "net_core_hours",
     formula |-> [op |-> "sub", x |-> "cpu_core_hours", y |-> "memory_byte_hours"]]

CoresPerByte ==
    [name |-> "cores_per_byte",
     formula |-> [op |-> "floordiv", x |-> "cpu_core_hours", y |-> "memory_byte_hours"]]

CpuOnly == [name |-> "cpu_only", formula |-> [op |-> "var", x |-> "cpu_core_hours", y |-> ""]]

CustomDimensionSets ==
    { EmptyDict, <<CpuOnly>>, <<NetCoreHours>>, <<CpuOnly, CoresPerByte>>,
      <<NetCoreHours, CoresPerByte>> }

\* no file, or two files in which E1 has more memory_byte_hours than
\* cpu_core_hours and E2 has no memory_byte_hours
SettingsListings ==
    { <<>>,
      << << UsageRecord("E1", "cpu_core_hours", 5), UsageRecord("E2", "cpu_core_hours", 3) >>,
         << UsageRecord("E1", "memory_byte_hours", 7) >> >> }

SettingsResponses == {RespSuccess, RespApiError}

\* the next processor is constructed with another access_token
SetAccessToken(access_token) ==
    /\ pc = "idle"
    /\ access_token # config.access_token
    /\ config' = [config EXCEPT !.access_token = access_token]
    /\ UNCHANGED <<bucket, pc, frame, posted, accepted>>

\* the next processor is constructed with other custom_dimensions
SetCustomDimensions(custom_dimensions) ==
    /\ pc = "idle"
    /\ custom_dimensions # config.custom_dimensions
    /\ config' = [config EXCEPT !.custom_dimensions = custom_dimensions]
    /\ UNCHANGED <<bucket, pc, frame, posted, accepted>>

NextSettings ==
    \/ ProcessMonth(start_month)
    \/ \E resp \in SettingsResponses : RetryAttempt(resp)
    \/ \E listing \in SettingsListings : ListAndFilter(listing)
    \/ \E resp \in SettingsResponses : SendAttempt(resp)
    \/ Finish
    \/ \E max_retries \in 0..MaxRetriesBound : SetMaxRetries(max_retries)
    \/ \E dry_run \in BOOLEAN : SetDryRun(dry_run)
    \/ \E access_token \in {"token", ""} : SetAccessToken(access_token)
    \/ \E custom_dimensions \in CustomDimensionSets : SetCustomDimensions(custom_dimensions)

SpecSettings == Init /\ [][NextSettings]_vars

(***************************************************************************)
(* What the claims observe.                                                *)
(***************************************************************************)
(***************************************************************************)
(* get_next_month_to_process on its own: the state file holds any cursor   *)
(* that update_last_processed_month can have written, or none, and the     *)
(* export state any of a few values of last_processed_to, or none.         *)
(***************************************************************************)
CursorYears == 2024..2025

CursorMonths == {<<y, m>> : y \in CursorYears, m \in 1..12}

\* last_processed_to before, at and after the months a cursor can name:
\* the end of the month, the end of the first hour of its last day, and a
\* moment in the middle of it
CursorStamps ==
    UNION {{ <<ym[1], ym[2], DaysInMonth(ym[1], ym[2]), 23, 59, 59>>,
             <<ym[1], ym[2], DaysInMonth(ym[1], ym[2]), 0, 59, 59>>,
             <<ym[1], ym[2], 15, 12, 30, 0>> } :
           ym \in {<<2024, 6>>, <<2024, 12>>, <<2025, 1>>, <<2025, 12>>, <<2026, 1>>}}

\* the bucket with the cursor written by update_last_processed_month
BucketWithCursor(b, last_processed) ==
    IF last_processed = None THEN b
    ELSE update_last_processed_month(b, ServiceKey, last_processed[1], last_processed[2])

\* the bucket with the export state holding last_processed_to
BucketWithStamp(b, stamp) ==
    IF stamp = None THEN b
    ELSE Put(b, usage_data_state_key, Put(EmptyDict, ServiceKey, [last_processed_to |-> stamp]))

InitCursor ==
    /\ \E last_processed \in CursorMonths \cup {None}, stamp \in CursorStamps \cup {None} :
          bucket = BucketWithStamp(BucketWithCursor(EmptyDict, last_processed), stamp)
    /\ config = [max_retries |-> 0, dry_run |-> FALSE, access_token |-> "token",
                 custom_dimensions |-> EmptyDict]
    /\ pc = "idle"
    /\ frame = IdleFrame
    /\ posted = <<>>
    /\ accepted = EmptyDict

\* one call of get_next_month_to_process with START_MONTH as the default
GetNextMonthToProcess ==
    /\ pc = "idle"
    /\ frame.entry = ""
    /\ frame' = [IdleFrame EXCEPT
                    !.entry = "get_next_month_to_process",
                    !.next_month = get_next_month_to_process(bucket, ServiceKey, start_month)]
    /\ UNCHANGED <<bucket, config, pc, posted, accepted>>

NextCursor == GetNextMonthToProcess

SpecCursor == InitCursor /\ [][NextCursor]_vars

(***************************************************************************)
(* aggregate_usage_data on its own: process_month reads the files of the   *)
(* month, concatenates their records and aggregates them.                  *)
(***************************************************************************)
\* records of the usage export: well-formed ones, one of them with the
\* value 2.5, one without externalPayerId and one without dimension
AggregateRecords ==
    { UsageRecord("E1", "cpu_core_hours", 5),
      [externalPayerId |-> "E1", dimension |-> "cpu_core_hours", value |-> 2, tenths |-> 5],
      UsageRecord("E2", "cpu_core_hours", 3),
      UsageRecord("E1", "memory_byte_hours", 7),
      [dimension |-> "cpu_core_hours", value |-> 1],
      [externalPayerId |-> "E1", value |-> 4] }

MaxRecords == 3

Min(S) == CHOOSE x \in S : \A y \in S : x <= y

RECURSIVE SplitAt(_, _)
\* the files that hold the records in this order, a new file starting
\* after each of the positions in cuts
SplitAt(records, cuts) ==
    IF Len(records) = 0 THEN <<>>
    ELSE IF cuts = {} THEN <<records>>
         ELSE LET cut == Min(cuts)
              IN  <<SubSeq(records, 1, cut)>>
                     \o SplitAt(SubSeq(records, cut + 1, Len(records)),
                                {c - cut : c \in cuts \ {cut}})

\* the month has up to MaxRecords records, in any order and any split
InitAggregate ==
    /\ bucket = EmptyDict
    /\ config = [max_retries |-> 0, dry_run |-> FALSE, access_token |-> "token",
                 custom_dimensions |-> EmptyDict]
    /\ pc = "idle"
    /\ \E n \in 0..MaxRecords :
          \E records \in [1..n -> AggregateRecords], cuts \in SUBSET (1..(n - 1)) :
             frame = [IdleFrame EXCEPT !.files = SplitAt(records, cuts)]
    /\ posted = <<>>
    /\ accepted = EmptyDict

\* all_usage_records.extend(usage_records) for every file
ReadFiles ==
    /\ pc = "idle"
    /\ frame.entry = ""
    /\ frame' = [frame EXCEPT !.entry = "read", !.all_usage_records = Concat(frame.files)]
    /\ UNCHANGED <<bucket, config, pc, posted, accepted>>

\* aggregated_data = self.aggregate_usage_data(all_usage_records)
Aggregate ==
    /\ pc = "idle"
    /\ frame.entry = "read"
    /\ frame' = [frame EXCEPT !.entry = "aggregate_usage_data",
                              !.aggregated_data = aggregate_usage_data(frame.all_usage_records)]
    /\ UNCHANGED <<bucket, config, pc, posted, accepted>>

NextAggregate == ReadFiles \/ Aggregate

SpecAggregate == InitAggregate /\ [][NextAggregate]_vars

(***************************************************************************)
(* transform_dimensions on its own: process_month aggregates the records   *)
(* and transforms the result with the configured formulas.                 *)
(***************************************************************************)
\* a formula naming a variable that the evaluation context does not have
UnknownName == [name |-> "unknown", formula |-> [op |-> "var", x |-> "requests", y |-> ""]]

TransformFormulas == {CpuOnly, NetCoreHours, CoresPerByte, UnknownName}

MaxFormulas == 3

\* custom_dimensions: up to MaxFormulas formulas with distinct names, in any order
TransformDimensionSets ==
    UNION {{cd \in [1..n -> TransformFormulas] :
               \A i, j \in 1..n : (cd[i].name = cd[j].name) => i = j} : n \in 0..MaxFormulas}

TransformRecords ==
    { UsageRecord("E1", "cpu_core_hours", 5), UsageRecord("E1", "memory_byte_hours", 7),
      UsageRecord("E2", "cpu_core_hours", 3), UsageRecord("E2", "memory_byte_hours", 2) }

MaxTransformRecords == 3

InitTransform ==
    /\ bucket = EmptyDict
    /\ \E custom_dimensions \in TransformDimensionSets :
          config = [max_retries |-> 0, dry_run |-> FALSE, access_token |-> "token",
                    custom_dimensions |-> custom_dimensions]
    /\ pc = "idle"
    /\ \E n \in 0..MaxTransformRecords : \E records \in [1..n -> TransformRecords] :
          frame = [IdleFrame EXCEPT !.all_usage_records = records]
    /\ posted = <<>>
    /\ accepted = EmptyDict

\* aggregated_data = self.aggregate_usage_data(all_usage_records), then
\* aggregated_data = self.transform_dimensions(aggregated_data)
AggregateAndTransform ==
    /\ pc = "idle"
    /\ frame.entry = ""
    /\ frame' = [frame EXCEPT
                    !.entry = "transform_dimensions",
                    !.aggregated_data =
                        transform_dimensions(aggregate_usage_data(frame.all_usage_records),
                                             config.custom_dimensions)]
    /\ UNCHANGED <<bucket, config, pc, posted, accepted>>

NextTransform == AggregateAndTransform

SpecTransform == InitTransform /\ [][NextTransform]_vars

(***************************************************************************)
(* Two runners on the same service configuration.  Each runs phase B of    *)
(* process_month for the start month with the same usage data and an API   *)
(* that accepts every request; the load_state and the save_state of        *)
(* mark_contract_month_processed are separate steps.  In this              *)
(* specification pc and frame are functions of the runner, and posted is   *)
(* the log of what the runners did.                                        *)
(***************************************************************************)
Runners == {"r1", "r2"}

\* how many times a runner calls process_month
MaxRuns == 2

\* the aggregation both runners compute
RaceData ==
    << [key |-> <<"E1", "cpu_core_hours">>, value |-> 5],
       [key |-> <<"E2", "cpu_core_hours">>, value |-> 3] >>

RaceIdle(run) == [run |-> run, batch |-> <<>>, i |-> 0, snapshot |-> EmptyDict]

InitRace ==
    /\ bucket = EmptyDict
    /\ config = [max_retries |-> 0, dry_run |-> FALSE, access_token |-> "token",
                 custom_dimensions |-> EmptyDict]
    /\ pc = [r \in Runners |-> "idle"]
    /\ frame = [r \in Runners |-> RaceIdle(0)]
    /\ posted = <<>>
    /\ accepted = EmptyDict

\* process_month up to the first request: filter_success_contracts reads the
\* ledger and keeps the contracts without an entry
RaceStart(r) ==
    /\ pc[r] = "idle"
    /\ frame[r].run < MaxRuns
    /\ LET batch == ContractIds(filter_success_contracts(RaceData, bucket, ServiceKey,
                                                         start_month[1], start_month[2]))
       IN  /\ frame' = [frame EXCEPT ![r] = [RaceIdle(frame[r].run + 1) EXCEPT
                                                !.batch = batch,
                                                !.i = IF Len(batch) = 0 THEN 0 ELSE 1]]
           /\ pc' = [pc EXCEPT ![r] = IF Len(batch) = 0 THEN "idle" ELSE "post"]
           /\ posted' = Append(posted, [kind |-> "start", runner |-> r, contracts |-> batch])
    /\ UNCHANGED <<bucket, config, accepted>>

\* requests.post for the current contract, answered with success
RacePost(r) ==
    /\ pc[r] = "post"
    /\ LET contract_id == frame[r].batch[frame[r].i]
       IN  /\ accepted' = Accept(accepted, start_month[1], start_month[2], contract_id)
           /\ posted' = Append(posted, [kind |-> "post", runner |-> r,
                                        contracts |-> <<contract_id>>])
    /\ pc' = [pc EXCEPT ![r] = "mark_load"]
    /\ UNCHANGED <<bucket, config, frame>>

\* state = self.load_state() of mark_contract_month_processed
RaceLoad(r) ==
    /\ pc[r] = "mark_load"
    /\ frame' = [frame EXCEPT ![r].snapshot = bucket]
    /\ pc' = [pc EXCEPT ![r] = "mark_save"]
    /\ UNCHANGED <<bucket, config, posted, accepted>>

\* what a save of the bucket as next removes from the Success list
LostBy(next) ==
    LET month_key == get_month_key(start_month[1], start_month[2])
        before == MonthList(load_state(bucket), ServiceKey, "success_contracts", month_key)
        after == MonthList(load_state(next), ServiceKey, "success_contracts", month_key)
    IN  FilterSeq(before, {before[i] : i \in {j \in 1..Len(before) : ~Contains(after, before[j])}})

\* the end of a contract of the batch: the next one, or the return
RaceContractDone(r, next) ==
    /\ bucket' = next
    /\ posted' = IF Len(LostBy(next)) = 0 THEN posted
                 ELSE Append(posted, [kind |-> "lost", runner |-> r,
                                      contracts |-> LostBy(next)])
    /\ IF frame[r].i = Len(frame[r].batch)
       THEN /\ pc' = [pc EXCEPT ![r] = "idle"]
            /\ frame' = [frame EXCEPT ![r] = RaceIdle(frame[r].run)]
       ELSE /\ pc' = [pc EXCEPT ![r] = "post"]
            /\ frame' = [frame EXCEPT ![r].i = frame[r].i + 1, ![r].snapshot = EmptyDict]
    /\ UNCHANGED <<config, accepted>>

\* mark_contract_month_processed with the load and the save in one step
race_save_atomic(r) ==
    /\ pc[r] = "mark_save"
    /\ RaceContractDone(r, mark_contract_month_processed(
                               bucket, ServiceKey, frame[r].batch[frame[r].i],
                               start_month[1], start_month[2]))

\* self.save_state(state) of mark_contract_month_processed: the document
\* loaded before, with the entry added, replaces the stored one
RaceSave(r) ==
    /\ pc[r] = "mark_save"
    /\ RaceContractDone(r, save_state(bucket,
                               load_state(mark_contract_month_processed(
                                   frame[r].snapshot, ServiceKey, frame[r].batch[frame[r].i],
                                   start_month[1], start_month[2]))))

NextRace == \E r \in Runners : RaceStart(r) \/ RacePost(r) \/ RaceLoad(r) \/ RaceSave(r)

SpecRace == InitRace /\ [][NextRace]_vars

(***************************************************************************)
(* The ledger and cursor operations on their own: a few calls in sequence, *)
(* each for one of two service configurations, one of two months and one   *)
(* of two contracts.  frame keeps the call just made: its name, its        *)
(* arguments and the state document it loaded.                             *)
(***************************************************************************)
OtherServiceKey == get_service_key("Postgres", "DEV", "plan")

LedgerServices == {ServiceKey, OtherServiceKey}

LedgerMonths == {start_month, NextMonthOf(start_month)}

LedgerContracts == {"E1", "E2"}

\* how many calls are made
MaxCalls == 3

LedgerPayload(n) == [request |-> << [contract_id |-> "E1", quantity |-> StrInt(n)] >>]

\* the arguments errors, code, message, payload, retry_count of
\* mark_contract_month_error: all given, and code, message and payload left
\* at their default None
ErrorArgs ==
    { [errors |-> <<"rejected">>, code |-> "API_ERROR", message |-> "errors reported",
       payload |-> LedgerPayload(5), retry_count |-> 0],
      [errors |-> <<"timeout">>, code |-> "NETWORK_ERROR", message |-> "network error",
       payload |-> LedgerPayload(7), retry_count |-> 1],
      [errors |-> <<"failed">>, code |-> "", message |-> "", payload |-> None,
       retry_count |-> 2] }

InitLedger ==
    /\ bucket = EmptyDict
    /\ config = [max_retries |-> 0, dry_run |-> FALSE, access_token |-> "token",
                 custom_dimensions |-> EmptyDict]
    /\ pc = "idle"
    /\ frame = IdleFrame
    /\ posted = <<>>
    /\ accepted = EmptyDict

\* one call: the bucket after it, and the call kept in frame
LedgerCall(name, service_key, ym, contract_id, args, next) ==
    /\ pc = "idle"
    /\ frame.i < MaxCalls
    /\ bucket' = next
    /\ frame' = [IdleFrame EXCEPT !.entry = name, !.i = frame.i + 1,
                                  !.year = ym[1], !.month = ym[2],
                                  !.args = [service_key |-> service_key,
                                            contract_id |-> contract_id, call |-> args],
                                  !.state_at_entry = load_state(bucket)]
    /\ UNCHANGED <<config, pc, posted, accepted>>

MarkProcessed(service_key, ym, contract_id) ==
    LedgerCall("mark_contract_month_processed", service_key, ym, contract_id, <<>>,
               mark_contract_month_processed(bucket, service_key, contract_id, ym[1], ym[2]))

MarkError(service_key, ym, contract_id, a) ==
    LedgerCall("mark_contract_month_error", service_key, ym, contract_id, a,
               mark_contract_month_error(bucket, service_key, contract_id, ym[1], ym[2],
                                         a.errors, a.code, a.message, a.payload, a.retry_count))

RemoveError(service_key, ym, contract_id) ==
    LedgerCall("remove_error_contract", service_key, ym, contract_id, <<>>,
               remove_error_contract(bucket, service_key, contract_id, ym[1], ym[2]))

UpdateCursor(service_key, ym) ==
    LedgerCall("update_last_processed_month", service_key, ym, "", <<>>,
               update_last_processed_month(bucket, service_key, ym[1], ym[2]))

NextLedger ==
    \E service_key \in LedgerServices, ym \in LedgerMonths :
       \/ UpdateCursor(service_key, ym)
       \/ \E contract_id \in LedgerContracts :
             \/ MarkProcessed(service_key, ym, contract_id)
             \/ RemoveError(service_key, ym, contract_id)
             \/ \E a \in ErrorArgs : MarkError(service_key, ym, contract_id, a)

SpecLedger == InitLedger /\ [][NextLedger]_vars

(***************************************************************************)
(* process_next_month started on a bucket as earlier runs and the usage    *)
(* export can have left it: with or without cursor, with or without an     *)
(* Error entry, and with the export state missing, not parseable, without  *)
(* the service, without a usable last_processed_to, or with a valid one.   *)
(* result is FALSE until a call has returned.                              *)
(***************************************************************************)
\* last_processed_to: empty, not a date, and valid ones around the start month
CaughtUpStamps ==
    { <<>>, <<2024, 13, 1, 0, 0, 0>>,
      <<2024, 11, 30, 23, 59, 59>>, <<2024, 12, 31, 23, 59, 59>>,
      <<2025, 1, 15, 12, 30, 0>>, <<2025, 1, 31, 23, 59, 59>> }

\* the export state object: none, one that is not JSON, a document of
\* another service only, or a document with the stamp
ExportKinds == {"missing", "not json", "other service", "document"}

BucketWithExport(b, kind, stamp) ==
    IF kind = "missing" THEN b
    ELSE IF kind = "not json" THEN Put(b, usage_data_state_key, NotJson)
    ELSE Put(b, usage_data_state_key,
             Put(EmptyDict, IF kind = "document" THEN ServiceKey ELSE OtherServiceKey,
                 [last_processed_to |-> stamp]))

\* the bucket with an Error entry of E1 for the start month, or without
BucketWithError(b, with_error) ==
    IF with_error
    THEN mark_contract_month_error(b, ServiceKey, "E1", start_month[1], start_month[2],
                                   <<"rejected">>, "API_ERROR", "errors reported",
                                   LedgerPayload(5), 0)
    ELSE b

InitCaughtUp ==
    /\ \E last_processed \in {None, start_month, NextMonthOf(start_month)},
          kind \in ExportKinds, stamp \in CaughtUpStamps, with_error \in BOOLEAN :
          LET b == BucketWithExport(
                       BucketWithCursor(BucketWithError(EmptyDict, with_error), last_processed),
                       kind, stamp)
              latest == get_latest_month_with_complete_usage_data(b, ServiceKey)
          IN  /\ bucket = b
              /\ (latest # None /\ last_processed # None)
                    => last_processed[1] * 12 + last_processed[2] <= latest[1] * 12 + latest[2]
    /\ config = [max_retries |-> 1, dry_run |-> FALSE, access_token |-> "token",
                 custom_dimensions |-> EmptyDict]
    /\ pc = "idle"
    /\ frame = [IdleFrame EXCEPT !.result = FALSE]
    /\ posted = <<>>
    /\ accepted = EmptyDict

NextCaughtUp ==
    \/ ProcessNextMonth
    \/ \E resp \in SettingsResponses : RetryAttempt(resp)
    \/ \E listing \in SettingsListings : ListAndFilter(listing)
    \/ \E resp \in SettingsResponses : SendAttempt(resp)
    \/ Finish

SpecCaughtUp == InitCaughtUp /\ [][NextCaughtUp]_vars

(***************************************************************************)
(* process_pending_months of the backlog-draining variant.                 *)
(***************************************************************************)
\* locals of process_pending_months; months is the list of the
\* process_month calls made so far by the call, with what each returned,
\* and state_at_entry the state document found when the call began
BatchIdle ==
    [entry |-> "", max_months |-> 0, processed_count |-> 0, all_successful |-> TRUE,
     next_month |-> None, months |-> <<>>, result |-> TRUE,
     state_at_entry |-> EmptyDict]

\* config holds dry_run and access_token, the month of the clock and the
\* number of calls of process_pending_months made
InitBatch ==
    /\ bucket = EmptyDict
    /\ config \in [dry_run : BOOLEAN, access_token : {"token", ""},
                   current_month : {MonthAt(2)}, runs : {0}]
    /\ pc = "idle"
    /\ frame = BatchIdle
    /\ posted = <<>>
    /\ accepted = EmptyDict

\* process_pending_months is called
BatchStart(max_months) ==
    /\ pc = "idle"
    /\ config.runs < MaxRuns
    /\ pc' = "pending"
    /\ frame' = [BatchIdle EXCEPT !.entry = "process_pending_months",
                                  !.max_months = max_months,
                                  !.state_at_entry = load_state(bucket)]
    /\ config' = [config EXCEPT !.runs = @ + 1]
    /\ UNCHANGED <<bucket, posted, accepted>>

\* the head of the while loop without the max_months condition
batch_next_month_unbounded ==
    /\ pc = "pending"
    /\ LET next_month == batch_get_next_month_to_process(bucket, ServiceKey,
                                                         config.current_month)
       IN  IF next_month # None
           THEN /\ pc' = "month"
                /\ frame' = [frame EXCEPT !.next_month = next_month]
           ELSE /\ pc' = "idle"
                /\ frame' = [frame EXCEPT !.result = frame.all_successful,
                                          !.next_month = None]
    /\ UNCHANGED <<bucket, config, posted, accepted>>

\* the head of the while loop: leave it, or find the next month
BatchNextMonth ==
    /\ pc = "pending"
    /\ LET next_month == batch_get_next_month_to_process(bucket, ServiceKey,
                                                         config.current_month)
       IN  IF frame.processed_count < frame.max_months /\ next_month # None
           THEN /\ pc' = "month"
                /\ frame' = [frame EXCEPT !.next_month = next_month]
           ELSE /\ pc' = "idle"
                /\ frame' = [frame EXCEPT !.result = frame.all_successful,
                                          !.next_month = None]
    /\ UNCHANGED <<bucket, config, posted, accepted>>

\* process_month of the month found, and what the loop does with its result
BatchProcessMonth(listing, resp) ==
    /\ pc = "month"
    /\ LET year == frame.next_month[1]
           month == frame.next_month[2]
           done == batch_process_month(bucket, config, ServiceKey, year, month, listing, resp)
       IN  /\ posted' = IF done.requested
                        THEN Append(posted,
                                 [year |-> year, month |-> month,
                                  contract_ids |-> ContractIds(
                                      BatchFiltered(bucket, year, month, listing)),
                                  errors_for |-> ErrorContractsOf(resp)])
                        ELSE posted
           /\ IF done.result
              THEN /\ bucket' = update_last_processed_month(done.bucket, ServiceKey, year, month)
                   /\ pc' = "pending"
                   /\ frame' = [frame EXCEPT
                          !.processed_count = @ + 1,
                          !.months = Append(@, [month |-> <<year, month>>, success |-> TRUE])]
              ELSE /\ bucket' = done.bucket
                   /\ pc' = "idle"
                   /\ frame' = [frame EXCEPT
                          !.all_successful = FALSE, !.result = FALSE,
                          !.months = Append(@, [month |-> <<year, month>>, success |-> FALSE])]
    /\ UNCHANGED <<config, accepted>>

\* the clock passes into the next month
BatchTick ==
    /\ NextMonthOf(config.current_month) \in BatchClock
    /\ config' = [config EXCEPT !.current_month = NextMonthOf(@)]
    /\ UNCHANGED <<bucket, pc, frame, posted, accepted>>

NextBatch ==
    \/ \E max_months \in 1..MaxMonthsBound : BatchStart(max_months)
    \/ BatchNextMonth
    \/ /\ pc = "month"
       /\ \E listing \in BatchListings, kind \in BatchKinds :
             \E outcomes \in [1..Len(BatchFiltered(bucket, frame.next_month[1],
                                                   frame.next_month[2], listing))
                                  -> BatchOutcomes] :
                BatchProcessMonth(listing,
                    BatchResponse(kind, BatchFiltered(bucket, frame.next_month[1],
                                                      frame.next_month[2], listing), outcomes))
    \/ BatchTick

SpecBatch == InitBatch /\ [][NextBatch]_vars

(***************************************************************************)
(* retry_error_contracts on a ledger that holds Error entries when the run *)
(* begins: entries as send_to_clazar leaves them, with the payload and the *)
(* retry_count, and an entry as the backlog-draining variant writes it,    *)
(* without either.                                                         *)
(***************************************************************************)
\* the payload stored for a contract
RetryPayload(contract_id, quantity) ==
    [request |-> << RequestRecord([key |-> <<contract_id, "cpu_core_hours">>,
                                   value |-> quantity],
                                  start_month[1], start_month[2]) >>]

\* an Error entry of the contract, with the retry_count, added to the bucket
WithErrorEntry(b, contract_id, quantity, retry_count) ==
    mark_contract_month_error(b, ServiceKey, contract_id, start_month[1], start_month[2],
                              <<"dimension rejected">>, "INVALID_DIMENSION", "rejected",
                              RetryPayload(contract_id, quantity), retry_count)

\* what is known of a contract when the run begins: no entry, an entry
\* with the retry_count, or an entry of the other variant
RetryEntryKinds == {"none", "stored", "no payload"}

WithEntryKind(b, contract_id, quantity, kind, retry_count) ==
    IF kind = "stored" THEN WithErrorEntry(b, contract_id, quantity, retry_count)
    ELSE IF kind = "no payload"
    THEN batch_mark_contract_month_error(b, ServiceKey, contract_id,
                                         start_month[1], start_month[2],
                                         <<"dimension rejected">>, "INVALID_DIMENSION",
                                         "rejected")
    ELSE b

InitRetry ==
    /\ \E k1 \in RetryEntryKinds, k2 \in RetryEntryKinds, r1 \in 0..MaxRetriesBound,
          r2 \in 0..MaxRetriesBound :
          bucket = WithEntryKind(WithEntryKind(EmptyDict, "E1", 5, k1, r1), "E2", 3, k2, r2)
    /\ config \in [max_retries : 0..MaxRetriesBound, dry_run : BOOLEAN,
                   access_token : {"token"}, custom_dimensions : {EmptyDict}]
    /\ pc = "idle"
    /\ frame = IdleFrame
    /\ posted = <<>>
    /\ accepted = EmptyDict

\* process_month of the start month, for which no usage is found
NextRetry ==
    \/ ProcessMonth(start_month)
    \/ \E resp \in Responses : RetryAttempt(resp)
    \/ \E listing \in {<<>>, << <<>> >>} : ListAndFilter(listing)
    \/ Finish

SpecRetry == InitRetry /\ [][NextRetry]_vars

(***************************************************************************)
(* send_to_clazar with more attempts: one month with the usage of E1 and   *)
(* E2, MAX_RETRIES up to MaxBackoff.                                       *)
(***************************************************************************)
\* the largest MAX_RETRIES of these runs
MaxBackoff == 3

BackoffListing ==
    << << UsageRecord("E1", "cpu_core_hours", 5), UsageRecord("E2", "cpu_core_hours", 3) >> >>

BackoffResponses == {RespSuccess, RespApiError, RespTimeout}

InitBackoff ==
    /\ bucket = EmptyDict
    /\ config \in [max_retries : 0..MaxBackoff, dry_run : {FALSE},
                   access_token : {"token"}, custom_dimensions : {EmptyDict}]
    /\ pc = "idle"
    /\ frame = IdleFrame
    /\ posted = <<>>
    /\ accepted = EmptyDict

NextBackoff ==
    \/ ProcessMonth(start_month)
    \/ ListAndFilter(BackoffListing)
    \/ \E resp \in BackoffResponses : SendAttempt(resp)
    \/ Finish

SpecBackoff == InitBackoff /\ [][NextBackoff]_vars

(***************************************************************************)
(* Storage failures while the files of a month are listed and read.  The   *)
(* files of the partitions do not change during the runs; a file is named  *)
(* by its place in the listing.                                            *)
(***************************************************************************)
\* the files under the prefix of a month, as the records each holds
StoredFiles(ym) ==
    << << UsageRecord("E1", "cpu_core_hours", 5) >>,
       << UsageRecord("E2", "cpu_core_hours", 3) >> >>

\* list_monthly_subscription_files: the keys found, [] on a ClientError
list_monthly_subscription_files(files, fails) ==
    IF fails THEN <<>> ELSE [i \in 1..Len(files) |-> i]

\* read_s3_json_file returning the records although the read has failed
read_despite_failure(files, key, fails) == files[key]

\* read_s3_json_file: the records of the file, [] on a ClientError or a
\* JSONDecodeError
read_s3_json_file(files, key, fails) == IF fails THEN <<>> ELSE files[key]

\* what the loop over subscription_files reads, file by file
ReadListed(files, list_fails, unreadable) ==
    LET subscription_files == list_monthly_subscription_files(files, list_fails)
    IN  [i \in 1..Len(subscription_files) |->
            read_s3_json_file(files, subscription_files[i], subscription_files[i] \in unreadable)]

\* the export has published every month of Months
InitStorage ==
    /\ bucket = BucketWithStamp(EmptyDict,
                    LET last == MonthAt(NumMonths - 1)
                    IN  <<last[1], last[2], DaysInMonth(last[1], last[2]), 23, 59, 59>>)
    /\ config \in [max_retries : 0..MaxRetriesBound, dry_run : {FALSE},
                   access_token : {"token"}, custom_dimensions : {EmptyDict}]
    /\ pc = "idle"
    /\ frame = IdleFrame
    /\ posted = <<>>
    /\ accepted = EmptyDict

\* process_month lists the prefix and reads the files; the listing fails
\* or not, and the reads of the files in unreadable fail
StorageRead(list_fails, unreadable) ==
    /\ pc = "list"
    /\ frame.args = <<>>
    /\ frame' = [frame EXCEPT
           !.args = << [list_fails |-> list_fails, unreadable |-> unreadable] >>,
           !.files = ReadListed(StoredFiles(<<frame.year, frame.month>>),
                                list_fails, unreadable)]
    /\ UNCHANGED <<bucket, config, pc, posted, accepted>>

\* process_month goes on with what was read
AggregateRead ==
    /\ frame.args # <<>>
    /\ ListAndFilter(frame.files)

NextStorage ==
    \/ ProcessNextMonth
    \/ \E list_fails \in BOOLEAN, unreadable \in SUBSET (1..Len(StoredFiles(start_month))) :
          StorageRead(list_fails, unreadable)
    \/ AggregateRead
    \/ \E resp \in SettingsResponses : SendAttempt(resp)
    \/ Finish

SpecStorage == InitStorage /\ [][NextStorage]_vars

(***************************************************************************)
(* SpecStateLoss: ledger and cursor writes for two service configurations  *)
(* while the state file can be unreadable: get_object raising a            *)
(* ClientError other than NoSuchKey for one call, or the object holding    *)
(* text that json.loads rejects.                                           *)
(***************************************************************************)
\* how get_object answers the load_state of one call
Reads == {"ok", "client error"}

\* the bucket as the load_state of the call sees it: a ClientError leaves it
\* with nothing to read
Seen(b, read) == IF read = "client error" THEN Del(b, state_file_path) ELSE b

\* the bucket after a call that saw `seen` and ended with `after`: save_state
\* puts the document, and a call that saves nothing leaves the bucket alone
Saved(b, seen, after) == IF after = seen THEN b ELSE after

\* the export state with the data of both configurations complete up to the
\* month after START_MONTH
StateLossStamp ==
    LET ym == NextMonthOf(start_month)
    IN  [last_processed_to |-> <<ym[1], ym[2], DaysInMonth(ym[1], ym[2]), 23, 59, 59>>]

InitStateLoss ==
    /\ bucket = Put(EmptyDict, usage_data_state_key,
                    Put(Put(EmptyDict, ServiceKey, StateLossStamp),
                        OtherServiceKey, StateLossStamp))
    /\ config = [max_retries |-> 0, dry_run |-> FALSE, access_token |-> "token",
                 custom_dimensions |-> EmptyDict]
    /\ pc = "idle"
    /\ frame = IdleFrame
    /\ posted = <<>>
    /\ accepted = EmptyDict

\* one call whose load_state is answered by `read`; frame keeps the document
\* that was stored as well as the one the call loaded
StateLossCall(name, service_key, contract_id, read, after) ==
    /\ pc = "idle"
    /\ frame.i < MaxCalls
    /\ bucket' = Saved(bucket, Seen(bucket, read), after)
    /\ frame' = [IdleFrame EXCEPT !.entry = name, !.i = frame.i + 1,
                                  !.year = start_month[1], !.month = start_month[2],
                                  !.args = [service_key |-> service_key,
                                            contract_id |-> contract_id, read |-> read,
                                            stored |-> load_state(bucket)],
                                  !.state_at_entry = load_state(Seen(bucket, read))]
    /\ UNCHANGED <<config, pc, posted, accepted>>

LossMarkProcessed(service_key, contract_id, read) ==
    StateLossCall("mark_contract_month_processed", service_key, contract_id, read,
                  mark_contract_month_processed(Seen(bucket, read), service_key, contract_id,
                                                start_month[1], start_month[2]))

LossMarkError(service_key, contract_id, read) ==
    StateLossCall("mark_contract_month_error", service_key, contract_id, read,
                  mark_contract_month_error(Seen(bucket, read), service_key, contract_id,
                                            start_month[1], start_month[2], <<"rejected">>,
                                            "API_ERROR", "errors reported", LedgerPayload(5), 0))

LossUpdateCursor(service_key, read) ==
    StateLossCall("update_last_processed_month", service_key, "", read,
                  update_last_processed_month(Seen(bucket, read), service_key,
                                              start_month[1], start_month[2]))

\* the state file is overwritten with text that is not JSON
Corrupt ==
    /\ pc = "idle"
    /\ Has(bucket, state_file_path)
    /\ bucket[state_file_path] # NotJson
    /\ bucket' = Put(bucket, state_file_path, NotJson)
    /\ UNCHANGED <<config, pc, frame, posted, accepted>>

NextStateLoss ==
    \/ \E service_key \in LedgerServices, read \in Reads :
          \/ LossUpdateCursor(service_key, read)
          \/ \E contract_id \in LedgerContracts :
                \/ LossMarkProcessed(service_key, contract_id, read)
                \/ LossMarkError(service_key, contract_id, read)
    \/ Corrupt

SpecStateLoss == InitStateLoss /\ [][NextStateLoss]_vars

(***************************************************************************)
(* SpecLive: process_next_month run again and again while the export state *)
(* stays as it is, every read of the bucket succeeds and the API accepts   *)
(* every request.  The scheduler starts a run whenever none is in          *)
(* progress and each call of a run returns, so a step is taken whenever    *)
(* one can change the state.  An Error entry of an earlier run may be      *)
(* stored for the default start month.                                     *)
(***************************************************************************)
\* last_processed_to at the end of a month and in the middle of the next
LiveStamps ==
    UNION {{ <<MonthAt(k)[1], MonthAt(k)[2], DaysInMonth(MonthAt(k)[1], MonthAt(k)[2]),
               23, 59, 59>>,
             <<MonthAt(k + 1)[1], MonthAt(k + 1)[2], 15, 12, 30, 0>> } :
           k \in 0..(NumMonths - 1)}

\* the responses with which the API accepts a request
AcceptingResponses == {RespSuccess, RespWarning}

InitLive ==
    /\ \E last_processed \in Months \cup {None}, stamp \in LiveStamps, with_error \in BOOLEAN :
          LET b == BucketWithStamp(
                       BucketWithCursor(BucketWithError(EmptyDict, with_error), last_processed),
                       stamp)
              latest == get_latest_month_with_complete_usage_data(b, ServiceKey)
          IN  /\ bucket = b
              /\ last_processed # None
                    => last_processed[1] * 12 + last_processed[2]
                          <= latest[1] * 12 + latest[2]
    /\ config \in [max_retries : 0..MaxRetriesBound, dry_run : {FALSE},
                   access_token : {"token"}, custom_dimensions : {EmptyDict}]
    /\ pc = "idle"
    /\ frame = IdleFrame
    /\ posted = <<>>
    /\ accepted = EmptyDict

NextLive ==
    \/ ProcessNextMonth
    \/ \E resp \in AcceptingResponses : RetryAttempt(resp)
    \/ \E listing \in DriverListings : ListAndFilter(listing)
    \/ \E resp \in AcceptingResponses : SendAttempt(resp)
    \/ Finish

SpecLive == InitLive /\ [][NextLive]_vars /\ WF_vars(NextLive)

(***************************************************************************)
(* SpecTerminates: process_next_month runs, real or dry-run, against an    *)
(* API that accepts a request, rejects it or does not answer, with or      *)
(* without an Error entry stored for the default start month.  Each HTTP   *)
(* call and each call to the bucket returns or raises, so a run in         *)
(* progress takes its next step.                                           *)
(***************************************************************************)
InitTerminates ==
    /\ \E with_error \in BOOLEAN :
          LET ym == MonthAt(NumMonths - 1)
          IN  bucket = BucketWithStamp(BucketWithError(EmptyDict, with_error),
                                       <<ym[1], ym[2], DaysInMonth(ym[1], ym[2]), 23, 59, 59>>)
    /\ config \in [max_retries : 0..MaxRetriesBound, dry_run : BOOLEAN,
                   access_token : {"token"}, custom_dimensions : {EmptyDict}]
    /\ pc = "idle"
    /\ frame = IdleFrame
    /\ posted = <<>>
    /\ accepted = EmptyDict

NextTerminates ==
    \/ ProcessNextMonth
    \/ \E resp \in BackoffResponses : RetryAttempt(resp)
    \/ ListAndFilter(StoredFiles(start_month))
    \/ \E resp \in BackoffResponses : SendAttempt(resp)
    \/ Finish

\* a step of the run in progress
RunStep == pc # "idle" /\ NextTerminates

SpecTerminates == InitTerminates /\ [][NextTerminates]_vars /\ WF_vars(RunStep)

(***************************************************************************)
(* SpecInterrupt: process_next_month runs that can be killed at any point. *)
(* What follows a success response is taken one call at a time: the        *)
(* response arrives, then remove_error_contract, then                      *)
(* mark_contract_month_processed.  A killed run leaves the bucket and what *)
(* the API has accepted as they are and loses everything else.             *)
(***************************************************************************)
\* the responses with which the API does not accept a request
FailingResponses == {RespApiError, RespTimeout}

InitInterrupt ==
    /\ \E with_error \in BOOLEAN :
          LET ym == MonthAt(NumMonths - 1)
          IN  bucket = BucketWithStamp(BucketWithError(EmptyDict, with_error),
                                       <<ym[1], ym[2], DaysInMonth(ym[1], ym[2]), 23, 59, 59>>)
    /\ config \in [max_retries : 0..MaxRetriesBound, dry_run : {FALSE},
                   access_token : {"token"}, custom_dimensions : {EmptyDict}]
    /\ pc = "idle"
    /\ frame = IdleFrame
    /\ posted = <<>>
    /\ accepted = EmptyDict

\* requests.post of phase A answered with success
RetryAccepted ==
    /\ pc = "retry"
    /\ LET error_entry == frame.error_contracts[frame.i]
           contract_id == error_entry["contract_id"]
       IN  /\ posted' = Append(posted, Request("retry", contract_id, error_entry["payload"],
                                               Post(RespSuccess),
                                               Pow2(frame.current_retry + 1)))
           /\ accepted' = Accept(accepted, frame.year, frame.month, contract_id)
    /\ pc' = "retry_remove"
    /\ UNCHANGED <<bucket, config, frame>>

\* requests.post of phase B answered with success
SendAccepted ==
    /\ pc = "send"
    /\ LET contract_id == frame.contract_records[frame.i].contract_id
       IN  /\ posted' = Append(posted, Request("send", contract_id,
                                               frame.contract_records[frame.i].payload,
                                               Post(RespSuccess), wait_time(frame.attempt)))
           /\ accepted' = Accept(accepted, frame.year, frame.month, contract_id)
    /\ pc' = "send_remove"
    /\ UNCHANGED <<bucket, config, frame>>

\* the contract whose request was accepted
AcceptedContract ==
    IF pc \in {"retry_remove", "retry_mark"}
    THEN frame.error_contracts[frame.i]["contract_id"]
    ELSE frame.contract_records[frame.i].contract_id

\* remove_error_contract after the success response
RemoveErrorStep ==
    /\ pc \in {"retry_remove", "send_remove"}
    /\ bucket' = remove_error_contract(bucket, ServiceKey, AcceptedContract,
                                       frame.year, frame.month)
    /\ pc' = IF pc = "retry_remove" THEN "retry_mark" ELSE "send_mark"
    /\ UNCHANGED <<config, frame, posted, accepted>>

\* mark_contract_month_processed after it, and the end of the loop body
MarkProcessedStep ==
    /\ pc \in {"retry_mark", "send_mark"}
    /\ bucket' = mark_contract_month_processed(bucket, ServiceKey, AcceptedContract,
                                               frame.year, frame.month)
    /\ IF pc = "retry_mark"
       THEN RetryEntryDone(TRUE, frame.all_success)
       ELSE SendContractDone(TRUE, frame.all_success)
    /\ UNCHANGED <<config, posted, accepted>>

\* how many times the API accepts the request of one contract and month
MaxAccepted == 2

\* the process is killed
Interrupt ==
    /\ pc # "idle"
    /\ \A k \in DOMAIN accepted : accepted[k] < MaxAccepted
    /\ pc' = "idle"
    /\ frame' = [IdleFrame EXCEPT !.entry = "interrupted", !.result = FALSE]
    /\ posted' = <<>>
    /\ UNCHANGED <<bucket, config, accepted>>

NextInterrupt ==
    \/ ProcessNextMonth
    \/ \E resp \in FailingResponses : RetryAttempt(resp)
    \/ RetryAccepted
    \/ ListAndFilter(StoredFiles(start_month))
    \/ \E resp \in FailingResponses : SendAttempt(resp)
    \/ SendAccepted
    \/ RemoveErrorStep
    \/ MarkProcessedStep
    \/ Finish
    \/ Interrupt

SpecInterrupt == InitInterrupt /\ [][NextInterrupt]_vars

(***************************************************************************)
(* SpecShared: two processors, one for each of two service configurations, *)
(* with the same bucket and state_file_path.  Each makes the ledger and    *)
(* cursor calls of one process_next_month run whose requests are accepted: *)
(* mark_contract_month_processed for E1 and for E2, then                   *)
(* update_last_processed_month.  The load_state and the save_state of a    *)
(* call are separate steps.  pc and frame are functions of the runner.     *)
(***************************************************************************)
\* the service configuration of each runner
ServiceOf(r) == IF r = "r1" THEN ServiceKey ELSE OtherServiceKey

\* the calls of one run, in order
SharedCalls ==
    << [name |-> "mark_contract_month_processed", contract_id |-> "E1"],
       [name |-> "mark_contract_month_processed", contract_id |-> "E2"],
       [name |-> "update_last_processed_month", contract_id |-> ""] >>

SharedIdle == [i |-> 1, snapshot |-> EmptyDict]

InitShared ==
    /\ bucket = EmptyDict
    /\ config = [max_retries |-> 0, dry_run |-> FALSE, access_token |-> "token",
                 custom_dimensions |-> EmptyDict]
    /\ pc = [r \in Runners |-> "load"]
    /\ frame = [r \in Runners |-> SharedIdle]
    /\ posted = <<>>
    /\ accepted = EmptyDict

\* state = self.load_state() of the runner's current call
SharedLoad(r) ==
    /\ pc[r] = "load"
    /\ frame' = [frame EXCEPT ![r].snapshot = bucket]
    /\ pc' = [pc EXCEPT ![r] = "save"]
    /\ UNCHANGED <<bucket, config, posted, accepted>>

\* the bucket in which the call would end had nothing been saved since its load
CallOn(b, service_key, call) ==
    IF call.name = "mark_contract_month_processed"
    THEN mark_contract_month_processed(b, service_key, call.contract_id,
                                       start_month[1], start_month[2])
    ELSE update_last_processed_month(b, service_key, start_month[1], start_month[2])

\* self.save_state(state) of the call: the document loaded before, with the
\* call's change, replaces the stored one
SharedSave(r) ==
    /\ pc[r] = "save"
    /\ bucket' = save_state(bucket,
                     load_state(CallOn(frame[r].snapshot, ServiceOf(r), SharedCalls[frame[r].i])))
    /\ posted' = Append(posted, [runner |-> r, call |-> SharedCalls[frame[r].i]])
    /\ pc' = [pc EXCEPT ![r] = IF frame[r].i = Len(SharedCalls) THEN "done" ELSE "load"]
    /\ frame' = [frame EXCEPT ![r] = [i |-> frame[r].i + 1, snapshot |-> EmptyDict]]
    /\ UNCHANGED <<config, accepted>>

NextShared == \E r \in Runners : SharedLoad(r) \/ SharedSave(r)

SpecShared == InitShared /\ [][NextShared]_vars

Entities == {"E1", "E2"}

State == load_state(bucket)

\* the cursor persisted in a bucket, None when there is none
CursorOf(b) == get_last_processed_month(b, ServiceKey)

Cursor == CursorOf(bucket)

\* the watermark a run would read
Watermark == get_latest_month_with_complete_usage_data(bucket, ServiceKey)

\* months counted on one axis
MonthIndex(ym) == ym[1] * 12 + ym[2] - 1

\* the month of the call in progress
CallMonth == <<frame.year, frame.month>>

SuccessOf(state, ym) ==
    MonthList(state, ServiceKey, "success_contracts", get_month_key(ym[1], ym[2]))

ErrorsOf(state, ym) ==
    MonthList(state, ServiceKey, "error_contracts", get_month_key(ym[1], ym[2]))

HasSuccess(state, ym, contract_id) == Contains(SuccessOf(state, ym), contract_id)

ErrorEntriesOf(state, ym, contract_id) ==
    {ErrorsOf(state, ym)[i] : i \in {j \in 1..Len(ErrorsOf(state, ym)) :
                                        ErrorsOf(state, ym)[j]["contract_id"] = contract_id}}

HasError(state, ym, contract_id) == ErrorEntriesOf(state, ym, contract_id) # {}

\* the Success and Error entries of the service, month by month
LedgerOf(state) ==
    [ym \in Months |-> [success |-> SuccessOf(state, ym), errors |-> ErrorsOf(state, ym)]]

\* the contracts of the raw records that carry an entity id and a dimension
RawContracts(usage_records) ==
    {usage_records[i]["externalPayerId"] :
        i \in {j \in 1..Len(usage_records) :
                  /\ Has(usage_records[j], "externalPayerId")
                  /\ TruthyStr(usage_records[j]["externalPayerId"])
                  /\ Has(usage_records[j], "dimension")
                  /\ TruthyStr(usage_records[j]["dimension"])}}

AggregatedContracts(aggregated_data) ==
    {aggregated_data[i].key[1] : i \in 1..Len(aggregated_data)}

PostedContracts == {posted[i].contract_id : i \in 1..Len(posted)}

\* request i is the last one posted for its contract
IsLastRequest(i) ==
    \A j \in (i + 1)..Len(posted) : posted[j].contract_id # posted[i].contract_id

\* the payload phase B would build for the contract from the data of this call
PayloadNow(contract_id) ==
    [request |-> RecordsOf(frame.aggregated_data, contract_id, frame.year, frame.month)]

(***************************************************************************)
(* C1.  A contract that has a Success entry for the month when a call      *)
(* starts is not submitted for that month by the call, no request follows  *)
(* a success response for the same contract, and the API gives at most one *)
(* success response per contract and month.                                *)
(***************************************************************************)
C1_SubmittedOnce ==
    /\ \A k \in DOMAIN accepted : accepted[k] <= 1
    /\ \A i \in 1..Len(posted) :
          /\ ~HasSuccess(frame.state_at_entry, CallMonth, posted[i].contract_id)
          /\ \A j \in 1..(i - 1) :
                posted[j].contract_id = posted[i].contract_id
                   => posted[j].outcome # "success"

\* a later run of a month in which one contract already had its Success
\* entry has posted requests for another contract
C1_Witness ==
    /\ pc = "finish"
    /\ posted # <<>>
    /\ \E c \in Entities :
          /\ HasSuccess(frame.state_at_entry, CallMonth, c)
          /\ accepted[<<frame.year, frame.month, c>>] = 1

(***************************************************************************)
(* C2.  The step that ends process_next_month sets the cursor to the month *)
(* processed exactly when process_month returned True; the cursor changes  *)
(* in no other step, that step writes no ledger entry, and ledger entries  *)
(* are written only in the phases that precede it.                         *)
(***************************************************************************)
C2_CursorIffSuccess ==
    [][ /\ (pc = "finish" /\ frame.entry = "process_next_month" /\ frame.success)
              => (CursorOf(bucket') = CallMonth /\ CursorOf(bucket') # Cursor)
        /\ (CursorOf(bucket') # Cursor)
              => /\ pc = "finish" /\ pc' = "idle"
                 /\ frame.entry = "process_next_month" /\ frame.success
                 /\ LedgerOf(load_state(bucket')) = LedgerOf(State)
        /\ (LedgerOf(load_state(bucket')) # LedgerOf(State)) => pc \in {"retry", "send"} ]_vars

\* the cursor was advanced by one run and left alone by a later run that failed
C2_Witness ==
    /\ pc = "idle"
    /\ Cursor = start_month
    /\ frame.result = FALSE

\* an Error entry that phase A of a run with this max_retries leaves alone
Exhausted(entry, max_retries) == RetryCountOf(entry) >= max_retries

(***************************************************************************)
(* C3 as stated.  Whenever the cursor is advanced to a month, every        *)
(* contract of the month's raw records (with entity id and dimension) has  *)
(* a Success entry for the month after the step.                           *)
(***************************************************************************)
C3_EverySuccess ==
    [][(CursorOf(bucket') # Cursor)
          => \A c \in RawContracts(frame.all_usage_records) :
                HasSuccess(load_state(bucket'), CallMonth, c)]_vars

(***************************************************************************)
(* C3 amended.  Whenever the cursor is advanced to a month, every contract *)
(* of the month's aggregation after the custom-dimension transform has,    *)
(* after the step, a Success entry for the month or an Error entry whose   *)
(* retry_count is not below the max_retries of the run.                    *)
(***************************************************************************)
C3_SuccessOrExhausted ==
    [][(CursorOf(bucket') # Cursor)
          => \A c \in AggregatedContracts(frame.aggregated_data) :
                \/ HasSuccess(load_state(bucket'), CallMonth, c)
                \/ \E e \in ErrorEntriesOf(load_state(bucket'), CallMonth, c) :
                      Exhausted(e, config.max_retries)]_vars

\* the cursor stands on a month for which a contract has only an Error entry
C3_Witness ==
    /\ pc = "idle"
    /\ Cursor # None
    /\ \E c \in Entities :
          /\ HasError(State, Cursor, c)
          /\ ~HasSuccess(State, Cursor, c)

(***************************************************************************)
(* C4 as stated.  While a contract of a month has an Error entry whose     *)
(* retry_count equals the max_retries in use and gets no Success entry, no *)
(* step moves the cursor to that month or to a later one.                  *)
(***************************************************************************)
C4_BlockedForever ==
    [][(CursorOf(bucket') # Cursor)
          => ~ \E ym \in Months, c \in Entities :
                /\ \E e \in ErrorEntriesOf(State, ym, c) :
                      RetryCountOf(e) = config.max_retries
                /\ ~HasSuccess(load_state(bucket'), ym, c)
                /\ MonthIndex(CursorOf(bucket')) >= MonthIndex(ym)]_vars

(***************************************************************************)
(* C4 amended.  With an access token and no failing formula, a run of      *)
(* process_next_month posts no request for a contract whose Error entry    *)
(* had retry_count >= max_retries when the run started and leaves that     *)
(* entry as it was, and process_month returns True exactly when the last   *)
(* request the run posted for each contract was answered with success: an  *)
(* exhausted entry holds the cursor back only in the run that records it.  *)
(***************************************************************************)
C4_BlockedOnlyByOwnFailure ==
    (pc = "finish" /\ frame.entry = "process_next_month")
       => /\ frame.success <=> (\A i \in 1..Len(posted) :
                                   IsLastRequest(i) => posted[i].outcome = "success")
          /\ \A c \in Entities :
                \A e \in ErrorEntriesOf(frame.state_at_entry, CallMonth, c) :
                   Exhausted(e, config.max_retries)
                      => /\ c \notin PostedContracts
                         /\ e \in ErrorEntriesOf(State, CallMonth, c)

\* a run that started with an exhausted Error entry returns True
C4_Witness ==
    /\ pc = "finish"
    /\ frame.entry = "process_next_month"
    /\ frame.success
    /\ \E c \in Entities :
          \E e \in ErrorEntriesOf(frame.state_at_entry, CallMonth, c) :
             RetryCountOf(e) = config.max_retries

(***************************************************************************)
(* C5.  Once the cursor has a value it keeps one, and every change sets it *)
(* to the calendar month that follows its previous value.                  *)
(***************************************************************************)
C5_CursorNextMonth ==
    [][(Cursor # None)
          => /\ CursorOf(bucket') # None
             /\ (CursorOf(bucket') # Cursor)
                   => /\ MonthIndex(CursorOf(bucket')) = MonthIndex(Cursor) + 1
                      /\ CursorOf(bucket')[2] \in 1..12]_vars

\* the cursor went from the December start month to January of the next year
C5_Witness ==
    /\ Cursor = <<start_month[1] + 1, 1>>
    /\ start_month[2] = 12

(***************************************************************************)
(* C6.  The cursor is never later than the watermark, and                  *)
(* get_next_month_to_process never returns a month later than the          *)
(* watermark.                                                              *)
(***************************************************************************)
C6_CursorWithinWatermark ==
    /\ (Cursor # None)
          => /\ Watermark # None
             /\ MonthIndex(Cursor) <= MonthIndex(Watermark)
    /\ LET next == get_next_month_to_process(bucket, ServiceKey, start_month)
       IN  (next # None)
              => /\ Watermark # None
                 /\ MonthIndex(next) <= MonthIndex(Watermark)

\* the cursor has caught up with the watermark and no month is returned,
\* the export being already in the following month
C6_Witness ==
    /\ Cursor # None
    /\ Cursor = Watermark
    /\ get_next_month_to_process(bucket, ServiceKey, start_month) = None
    /\ strptime(load_usage_data_state(bucket)[ServiceKey]["last_processed_to"]).month
          # Watermark[2]

(***************************************************************************)
(* C7.  No contract has both a Success entry and an Error entry for the    *)
(* same month, in every state reached by process_month and                 *)
(* process_next_month calls, real or dry-run.                              *)
(***************************************************************************)
C7_SuccessXorError ==
    \A ym \in Months, c \in Entities :
       ~(HasSuccess(State, ym, c) /\ HasError(State, ym, c))

\* phase A got a success response for a contract that had an Error entry,
\* and the contract now has its Success entry
C7_Witness ==
    \E i \in 1..Len(posted) :
       /\ posted[i].phase = "retry"
       /\ posted[i].outcome = "success"
       /\ HasError(frame.state_at_entry, CallMonth, posted[i].contract_id)
       /\ HasSuccess(State, CallMonth, posted[i].contract_id)

(***************************************************************************)
(* C8.  When process_month returns for a month whose raw-data contracts    *)
(* all had a Success entry at the start of the call and which had no Error *)
(* entry, the call has posted no request, the Success and Error entries    *)
(* are those of the start of the call, and the result is True.             *)
(***************************************************************************)
C8_Idempotent ==
    (/\ pc = "finish"
     /\ ErrorsOf(frame.state_at_entry, CallMonth) = <<>>
     /\ \A c \in RawContracts(frame.all_usage_records) :
           HasSuccess(frame.state_at_entry, CallMonth, c))
       => /\ posted = <<>>
          /\ LedgerOf(State) = LedgerOf(frame.state_at_entry)
          /\ frame.success

\* process_month returns for data of two contracts that both had their
\* Success entry when the call started
C8_Witness ==
    /\ pc = "finish"
    /\ ErrorsOf(frame.state_at_entry, CallMonth) = <<>>
    /\ RawContracts(frame.all_usage_records) = Entities
    /\ \A c \in Entities : HasSuccess(frame.state_at_entry, CallMonth, c)
    /\ frame.success

(***************************************************************************)
(* C9.  Every Error entry that a step writes (a new entry or a changed     *)
(* one) has a retry_count of at most the max_retries of the running call.  *)
(***************************************************************************)
C9_RetryCountBounded ==
    [][(bucket' # bucket)
          => \A ym \in Months :
                LET before == ErrorsOf(State, ym)
                    after == ErrorsOf(load_state(bucket'), ym)
                IN  \A i \in 1..Len(after) :
                       ~Contains(before, after[i])
                          => RetryCountOf(after[i]) <= config.max_retries]_vars

\* phase A has rewritten an Error entry with a retry_count equal to a
\* positive max_retries
C9_Witness ==
    /\ config.max_retries >= 1
    /\ \E i \in 1..Len(posted) :
          /\ posted[i].phase = "retry"
          /\ posted[i].outcome # "success"
          /\ \E e \in ErrorEntriesOf(State, CallMonth, posted[i].contract_id) :
                /\ RetryCountOf(e) = config.max_retries
                /\ Len(e["errors"]) >= 2

\* the data of the call gives the contract a payload other than the stored one
DataChanged(contract_id, entry) ==
    /\ contract_id \in RawContracts(frame.all_usage_records)
    /\ Has(entry, "payload")
    /\ entry["payload"] # PayloadNow(contract_id)

(***************************************************************************)
(* C10 as stated.  When a run that is not a dry run returns, a contract    *)
(* whose Error entry had retry_count >= max_retries at the start of the    *)
(* run has been submitted by the run if the data of the run differs from   *)
(* the stored payload, and has not been submitted if it does not; a        *)
(* contract whose entry had retry_count < max_retries has been submitted.  *)
(***************************************************************************)
C10_EligibleOnDataChange ==
    (pc = "finish" /\ ~config.dry_run)
       => \A c \in Entities :
             \A e \in ErrorEntriesOf(frame.state_at_entry, CallMonth, c) :
                /\ (Exhausted(e, config.max_retries) /\ ~DataChanged(c, e))
                      => c \notin PostedContracts
                /\ (Exhausted(e, config.max_retries) /\ DataChanged(c, e))
                      => c \in PostedContracts
                /\ ~Exhausted(e, config.max_retries) => c \in PostedContracts

(***************************************************************************)
(* C10 amended.  When a run that is not a dry run returns, a contract      *)
(* whose Error entry had retry_count >= max_retries at the start of the    *)
(* run has not been submitted and its entry is unchanged, whatever the     *)
(* data of the run; a contract whose entry had retry_count < max_retries   *)
(* has been submitted, by phase A only and with the stored payload.        *)
(***************************************************************************)
C10_EligibleOnLargerBoundOnly ==
    (pc = "finish" /\ ~config.dry_run)
       => \A c \in Entities :
             \A e \in ErrorEntriesOf(frame.state_at_entry, CallMonth, c) :
                /\ Exhausted(e, config.max_retries)
                      => /\ c \notin PostedContracts
                         /\ e \in ErrorEntriesOf(State, CallMonth, c)
                /\ ~Exhausted(e, config.max_retries)
                      => /\ c \in PostedContracts
                         /\ \A i \in 1..Len(posted) :
                               posted[i].contract_id = c
                                  => /\ posted[i].phase = "retry"
                                     /\ posted[i].payload = e["payload"]

\* a run returns without a request for a contract whose exhausted Error
\* entry holds a payload other than the one the data of the run gives
C10_Witness ==
    /\ pc = "finish"
    /\ ~config.dry_run
    /\ \E c \in Entities :
          \E e \in ErrorEntriesOf(frame.state_at_entry, CallMonth, c) :
             /\ Exhausted(e, config.max_retries)
             /\ DataChanged(c, e)
             /\ c \notin PostedContracts

\* the requests send_to_clazar has posted for a contract, in order
SendOutcomes(contract_id) ==
    {i \in 1..Len(posted) : posted[i].phase = "send" /\ posted[i].contract_id = contract_id}

(***************************************************************************)
(* C11.  When send_to_clazar has returned: if it returned True, every      *)
(* contract of the batch it was given has a Success entry for the month;   *)
(* if the last request it posted for some contract was not answered with   *)
(* success, or if there is no access token outside a dry run, it returned  *)
(* False.                                                                  *)
(***************************************************************************)
C11_SendResult ==
    (pc = "finish" /\ frame.send_called)
       => /\ frame.send_success
                => \A c \in AggregatedContracts(frame.filtered_data) :
                      HasSuccess(State, CallMonth, c)
          /\ (\E i \in 1..Len(posted) :
                 /\ posted[i].phase = "send"
                 /\ IsLastRequest(i)
                 /\ posted[i].outcome # "success")
                => ~frame.send_success
          /\ (~TruthyStr(config.access_token) /\ ~config.dry_run) => ~frame.send_success

\* send_to_clazar has returned False after one contract of the batch was
\* accepted and another exhausted its attempts
C11_Witness ==
    /\ pc = "finish"
    /\ frame.send_called
    /\ ~frame.send_success
    /\ \E c, d \in AggregatedContracts(frame.filtered_data) :
          /\ HasSuccess(State, CallMonth, c)
          /\ HasError(State, CallMonth, d)

(***************************************************************************)
(* C12.  Once send_to_clazar has got a success response for a contract, it *)
(* posts no further request for the contract, it has posted at most        *)
(* max_retries + 1 requests for it, and the contract has a Success entry   *)
(* and no Error entry for the month.                                       *)
(***************************************************************************)
C12_StopsAtSuccess ==
    \A c \in Entities :
       \A i \in SendOutcomes(c) :
          posted[i].outcome = "success"
             => /\ IsLastRequest(i)
                /\ Cardinality(SendOutcomes(c)) <= config.max_retries + 1
                /\ HasSuccess(State, CallMonth, c)
                /\ ~HasError(State, CallMonth, c)

\* send_to_clazar has returned after a contract failed on attempt 0 and
\* succeeded on attempt 1
C12_Witness ==
    /\ pc = "finish"
    /\ \E c \in Entities :
          \E i, j \in SendOutcomes(c) :
             /\ i < j
             /\ posted[i].outcome # "success"
             /\ posted[j].outcome = "success"
             /\ HasSuccess(State, CallMonth, c)

\* every request send_to_clazar has posted for the contract has failed
AllSendsFailed(contract_id) ==
    /\ SendOutcomes(contract_id) # {}
    /\ \A i \in SendOutcomes(contract_id) : posted[i].outcome # "success"

(***************************************************************************)
(* C13.  While the attempts send_to_clazar has made for a contract have    *)
(* all failed: before the attempt number max_retries + 1 the contract has  *)
(* no Error entry, and after it the contract has exactly one Error entry,  *)
(* whose payload is the payload posted and whose retry_count is            *)
(* max_retries.                                                            *)
(***************************************************************************)
C13_ErrorAfterLastAttempt ==
    \A c \in Entities :
       AllSendsFailed(c)
          => IF Cardinality(SendOutcomes(c)) <= config.max_retries
             THEN ~HasError(State, CallMonth, c)
             ELSE /\ Cardinality(SendOutcomes(c)) = config.max_retries + 1
                  /\ Cardinality(ErrorEntriesOf(State, CallMonth, c)) = 1
                  /\ \A e \in ErrorEntriesOf(State, CallMonth, c) :
                        /\ Has(e, "payload")
                        /\ \A i \in SendOutcomes(c) : e["payload"] = posted[i].payload
                        /\ RetryCountOf(e) = config.max_retries

\* send_to_clazar has returned after two failed attempts for a contract
C13_Witness ==
    /\ pc = "finish"
    /\ config.max_retries >= 1
    /\ \E c \in Entities :
          /\ AllSendsFailed(c)
          /\ Cardinality(SendOutcomes(c)) = config.max_retries + 1
          /\ HasError(State, CallMonth, c)

\* the contract has neither a Success nor an Error entry for the month of the call
Unresolved(contract_id) ==
    /\ ~HasSuccess(State, CallMonth, contract_id)
    /\ ~HasError(State, CallMonth, contract_id)

\* items is what is left of all_items when the items of the contracts
\* outside Keep are removed
IsRestriction(items, all_items, Keep) ==
    /\ Len(items) = Cardinality({i \in 1..Len(all_items) : all_items[i].key[1] \in Keep})
    /\ \A i \in 1..Len(all_items) :
          all_items[i].key[1] \in Keep => \E j \in 1..Len(items) : items[j] = all_items[i]
    /\ \A j \in 1..Len(items) :
          /\ items[j].key[1] \in Keep
          /\ \E i \in 1..Len(all_items) : items[j] = all_items[i]

\* the (contract, dimension) pairs of the records of the payloads
PayloadKeys(contract_records) ==
    UNION { { <<contract_records[i].payload.request[k].contract_id,
                contract_records[i].payload.request[k].dimension>> :
                 k \in 1..Len(contract_records[i].payload.request) } :
            i \in 1..Len(contract_records) }

(***************************************************************************)
(* C14.  The batch process_month hands to send_to_clazar holds exactly the *)
(* items of the fresh aggregation whose contract has, after phase A,       *)
(* neither a Success nor an Error entry for the month, with every          *)
(* dimension of such a contract; the payloads carry one record for each of *)
(* these items; without such a contract nothing is handed over; and a real *)
(* run that has gone through the batch has posted requests in phase B for  *)
(* exactly the contracts of the batch.                                     *)
(***************************************************************************)
C14_BatchIsUnresolved ==
    /\ [][(pc = "list" /\ (frame'.send_called \/ Len(frame'.aggregated_data) > 0))
             => LET Keep == {c \in AggregatedContracts(frame'.aggregated_data) :
                                Unresolved(c)}
                IN  /\ frame'.send_called <=> Keep # {}
                    /\ IsRestriction(frame'.filtered_data, frame'.aggregated_data, Keep)
                    /\ (pc' = "send")
                          => /\ PayloadKeys(frame'.contract_records)
                                   = {frame'.filtered_data[j].key :
                                         j \in 1..Len(frame'.filtered_data)}
                             /\ \A i \in 1..Len(frame'.contract_records) :
                                   \A k \in 1..Len(frame'.contract_records[i].payload.request) :
                                      frame'.contract_records[i].payload.request[k].contract_id
                                         = frame'.contract_records[i].contract_id]_vars
    /\ []((/\ pc = "finish" /\ frame.send_called
            /\ ~config.dry_run /\ TruthyStr(config.access_token))
             => {posted[i].contract_id : i \in {j \in 1..Len(posted) : posted[j].phase = "send"}}
                   = AggregatedContracts(frame.filtered_data))

\* the batch holds both dimensions of one contract while the other contract
\* of the aggregation is left out because of its Error entry
C14_Witness ==
    /\ pc = "send"
    /\ AggregatedContracts(frame.aggregated_data) = Entities
    /\ Len(frame.filtered_data) = 2
    /\ \E c \in Entities :
          /\ AggregatedContracts(frame.filtered_data) = {c}
          /\ \E d \in Entities : d # c /\ HasError(State, CallMonth, d)

\* no request of phase B has been posted
NoSendRequest == \A i \in 1..Len(posted) : posted[i].phase # "send"

\* the month has no file or no record, or the filter has kept no contract
\* (filtered_data keeps its initial empty value when the filter is not reached)
NothingToSend ==
    \/ ~Truthy(frame.all_usage_records)
    \/ ~Truthy(frame.filtered_data)

\* custom dimensions are configured and the transform has left no contract
TransformLeftNothing ==
    /\ Truthy(config.custom_dimensions)
    /\ Truthy(frame.all_usage_records)
    /\ ~Truthy(frame.aggregated_data)

(***************************************************************************)
(* C15 as stated.  When process_month returns: if send_to_clazar was       *)
(* called the result is (phase A's result and send_to_clazar's result); if *)
(* the month had no file, no record or no contract without a ledger entry, *)
(* send_to_clazar was not called, no request of phase B was posted and the *)
(* result is phase A's result.                                             *)
(***************************************************************************)
C15_ResultIsConjunction ==
    (pc = "finish")
       => /\ frame.send_called
                => frame.success = (frame.retry_success /\ frame.send_success)
          /\ (~frame.send_called) <=> NothingToSend
          /\ NothingToSend
                => /\ NoSendRequest
                   /\ frame.success = frame.retry_success

(***************************************************************************)
(* C15 amended.  The same, except that when custom dimensions are          *)
(* configured and the transform leaves no contract of a month that has     *)
(* records, send_to_clazar is not called and the result is False whatever  *)
(* phase A returned.                                                       *)
(***************************************************************************)
C15_ResultWithTransformCase ==
    (pc = "finish")
       => /\ frame.send_called
                => frame.success = (frame.retry_success /\ frame.send_success)
          /\ (~frame.send_called) <=> NothingToSend
          /\ NothingToSend
                => /\ NoSendRequest
                   /\ frame.success = IF TransformLeftNothing THEN FALSE
                                      ELSE frame.retry_success

\* process_month returns False although phase A returned True and phase B
\* did not run: every contract failed a formula
C15_Witness ==
    /\ pc = "finish"
    /\ TransformLeftNothing
    /\ frame.retry_success
    /\ ~frame.send_called
    /\ ~frame.success

\* the month whose index is i
MonthOfIndex(i) == <<i \div 12, (i % 12) + 1>>

\* what get_next_month_to_process starts from: the default, or the month
\* after the stored cursor
Candidate == IF Cursor = None THEN start_month ELSE MonthOfIndex(MonthIndex(Cursor) + 1)

(***************************************************************************)
(* C16.  get_next_month_to_process returns the default start month when no *)
(* cursor is stored and otherwise the calendar month after the cursor,     *)
(* January of the next year after a December, whenever that month is not   *)
(* later than the watermark.                                               *)
(***************************************************************************)
C16_NextMonth ==
    (/\ frame.entry = "get_next_month_to_process"
     /\ Watermark # None
     /\ MonthIndex(Candidate) <= MonthIndex(Watermark))
       => /\ frame.next_month = Candidate
          /\ (Cursor = None) => frame.next_month = start_month
          /\ (Cursor # None /\ Cursor[2] = 12)
                => frame.next_month = <<Cursor[1] + 1, 1>>
          /\ (Cursor # None /\ Cursor[2] # 12)
                => frame.next_month = <<Cursor[1], Cursor[2] + 1>>

\* a call with December 2024 stored returned January 2025
C16_Witness ==
    /\ frame.entry = "get_next_month_to_process"
    /\ Cursor = <<2024, 12>>
    /\ frame.next_month = <<2025, 1>>

\* the requests of phase B posted so far are all for the month of the call
SendRequestsForCallMonth ==
    \A i \in 1..Len(posted) :
       (posted[i].phase = "send")
          => \A k \in 1..Len(posted[i].payload.request) :
                /\ posted[i].payload.request[k].start_time[1] = frame.year
                /\ posted[i].payload.request[k].start_time[2] = frame.month

(***************************************************************************)
(* C17.  One invocation of process_next_month runs process_month for one   *)
(* month at most: the month is the one get_next_month_to_process returned, *)
(* it stays the month of the call until the invocation returns, every      *)
(* request of phase B is for it, and the cursor moves only at the return,  *)
(* to that month, which is one month step, however far the watermark is.   *)
(***************************************************************************)
C17_OnePeriodPerInvocation ==
    /\ [][/\ (pc = "idle" /\ pc' # "idle" /\ frame'.entry = "process_next_month")
                => /\ <<frame'.year, frame'.month>>
                         = get_next_month_to_process(bucket, ServiceKey, start_month)
                   /\ bucket' = bucket
          /\ (pc # "idle" /\ frame.entry = "process_next_month")
                => /\ (pc' # "idle")
                         => /\ frame'.entry = "process_next_month"
                            /\ frame'.year = frame.year
                            /\ frame'.month = frame.month
                   /\ (pc' = "idle") => pc = "finish"
                   /\ (pc # "finish") => CursorOf(bucket') = Cursor
                   /\ (pc = "finish")
                         => \/ CursorOf(bucket') = Cursor
                            \/ /\ CursorOf(bucket') = CallMonth
                               /\ MonthIndex(CallMonth)
                                     = IF Cursor = None THEN MonthIndex(start_month)
                                       ELSE MonthIndex(Cursor) + 1]_vars
    /\ []((pc # "idle" /\ frame.entry = "process_next_month") => SendRequestsForCallMonth)

\* process_month has run and submitted for the start month in an invocation
\* of process_next_month, while the month after it is complete too
C17_Witness ==
    /\ pc = "finish"
    /\ frame.entry = "process_next_month"
    /\ frame.success
    /\ Cursor = None
    /\ CallMonth = start_month
    /\ MonthIndex(Watermark) > MonthIndex(start_month)
    /\ \E i \in 1..Len(posted) : posted[i].phase = "send"

\* a dict as a mapping, the insertion order left out
AsMapping(items) ==
    [key \in {items[i].key : i \in 1..Len(items)} |-> GetItem(items, key, 0)]

\* the records in the order given by the permutation p of their positions
Permuted(records, p) == [i \in 1..Len(records) |-> records[p[i]]]

(***************************************************************************)
(* C18.  Whatever the order of the records and whatever their split into   *)
(* files, aggregate_usage_data gives the same mapping: the result of a     *)
(* call equals, as a mapping, the result for every permutation of the      *)
(* records read and every split of it into files.                          *)
(***************************************************************************)
C18_OrderAndSplitIndependent ==
    (frame.entry = "aggregate_usage_data")
       => LET n == Len(frame.all_usage_records)
          IN  \A p \in Permutations(1..n), cuts \in SUBSET (1..(n - 1)) :
                 AsMapping(aggregate_usage_data(
                              Concat(SplitAt(Permuted(frame.all_usage_records, p), cuts))))
                    = AsMapping(frame.aggregated_data)

\* two files were aggregated whose records, in another order, put the keys
\* of the result in another order
C18_Witness ==
    /\ frame.entry = "aggregate_usage_data"
    /\ Len(frame.files) = 2
    /\ Len(frame.aggregated_data) = 2
    /\ \E p \in Permutations(1..Len(frame.all_usage_records)) :
          aggregate_usage_data(Permuted(frame.all_usage_records, p)) # frame.aggregated_data

\* the record has an externalPayerId and a dimension (not empty)
WellFormed(record) ==
    /\ Has(record, "externalPayerId") /\ TruthyStr(record["externalPayerId"])
    /\ Has(record, "dimension") /\ TruthyStr(record["dimension"])

\* the positions of the well-formed records with that contract and dimension
RecordsWith(records, key) ==
    {i \in 1..Len(records) :
        /\ WellFormed(records[i])
        /\ <<records[i]["externalPayerId"], records[i]["dimension"]>> = key}

RECURSIVE IntegerSum(_, _)
\* the sum of the integer values of the records at those positions
IntegerSum(records, positions) ==
    IF positions = {} THEN 0
    ELSE LET i == CHOOSE j \in positions : TRUE
         IN  (IF Has(records[i], "value") THEN records[i]["value"] ELSE 0)
                + IntegerSum(records, positions \ {i})

Pairs == Entities \X ContextNames

(***************************************************************************)
(* C19.  The result of aggregate_usage_data has one key for each (contract,*)
(* dimension) pair of at least one well-formed record and no other key,    *)
(* and its value is the sum of the integer values of all the records with  *)
(* that pair; a record without externalPayerId or without dimension adds   *)
(* nothing and the records after it are still counted.                     *)
(***************************************************************************)
C19_SumsOfWellFormedRecords ==
    (frame.entry = "aggregate_usage_data")
       => LET totals == AsMapping(frame.aggregated_data)
          IN  /\ Len(frame.aggregated_data) = Cardinality(DOMAIN totals)
              /\ DOMAIN totals
                    = {key \in Pairs : RecordsWith(frame.all_usage_records, key) # {}}
              /\ \A key \in DOMAIN totals :
                    totals[key] = IntegerSum(frame.all_usage_records,
                                             RecordsWith(frame.all_usage_records, key))

\* a record without externalPayerId came first and the two records of E1
\* that follow it, 5 and 2.5, were added up to 7
C19_Witness ==
    /\ frame.entry = "aggregate_usage_data"
    /\ Len(frame.all_usage_records) = 3
    /\ ~WellFormed(frame.all_usage_records[1])
    /\ frame.all_usage_records[2] # frame.all_usage_records[3]
    /\ frame.aggregated_data = << [key |-> <<"E1", "cpu_core_hours">>, value |-> 7] >>

\* the aggregation the transform was given
TransformInput == aggregate_usage_data(frame.all_usage_records)

\* the positions of the configured formulas that fail for the contract
FailingFormulas(contract_id) ==
    {k \in 1..Len(config.custom_dimensions) :
        ~EvalFormula(config.custom_dimensions[k].formula,
                     DimensionsOf(TransformInput, contract_id)).ok}

\* the derived dimensions the result holds for the contract
DerivedOf(contract_id) ==
    {frame.aggregated_data[i].key[2] :
        i \in {j \in 1..Len(frame.aggregated_data) :
                  frame.aggregated_data[j].key[1] = contract_id}}

(***************************************************************************)
(* C20.  With custom dimensions configured, a contract for which one of    *)
(* the formulas fails, at whatever position, has no key in the result of   *)
(* transform_dimensions, and a contract for which they all succeed has     *)
(* every derived dimension, with the value of its formula; the result has  *)
(* no key of any other contract.                                           *)
(***************************************************************************)
C20_FailClosed ==
    (frame.entry = "transform_dimensions" /\ Truthy(config.custom_dimensions))
       => /\ \A contract_id \in AggregatedContracts(TransformInput) :
                IF FailingFormulas(contract_id) # {}
                THEN DerivedOf(contract_id) = {}
                ELSE /\ DerivedOf(contract_id)
                           = {config.custom_dimensions[k].name :
                                 k \in 1..Len(config.custom_dimensions)}
                     /\ \A k \in 1..Len(config.custom_dimensions) :
                           GetItem(frame.aggregated_data,
                                   <<contract_id, config.custom_dimensions[k].name>>, -1)
                              = EvalFormula(config.custom_dimensions[k].formula,
                                            DimensionsOf(TransformInput, contract_id)).result
          /\ AggregatedContracts(frame.aggregated_data) \subseteq AggregatedContracts(TransformInput)

\* of three formulas only the last fails for one contract, which has no key,
\* and all succeed for another, which has the three derived dimensions
C20_Witness ==
    /\ frame.entry = "transform_dimensions"
    /\ Len(config.custom_dimensions) = 3
    /\ \E failed, kept \in AggregatedContracts(TransformInput) :
          /\ FailingFormulas(failed) = {3}
          /\ DerivedOf(failed) = {}
          /\ FailingFormulas(kept) = {}
          /\ Cardinality(DerivedOf(kept)) = 3

\* the contracts with a Success entry for the start month in the bucket b
SuccessSet(b) ==
    LET list == SuccessOf(load_state(b), start_month)
    IN  {list[i] : i \in 1..Len(list)}

\* runner r does the save_state of mark_contract_month_processed in this step
Saves(r) == pc[r] = "mark_save" /\ pc'[r] # "mark_save"

(***************************************************************************)
(* C21.  With two runners, load_state and save_state being separate steps, *)
(* the last writer wins: a save leaves in the ledger the Success entries   *)
(* of the document its runner loaded and the entry it adds, and nothing    *)
(* else, so that an entry another runner saved in between is lost; and an  *)
(* entry disappears in no other way.  The witness is the interleaving in   *)
(* which an entry is lost and its contract is then accepted a second time. *)
(***************************************************************************)
C21_LastWriterWins ==
    [][/\ \A r \in Runners :
             Saves(r) => SuccessSet(bucket')
                            = SuccessSet(frame[r].snapshot) \cup {frame[r].batch[frame[r].i]}
       /\ \A contract_id \in SuccessSet(bucket) \ SuccessSet(bucket') :
             \E r \in Runners : Saves(r) /\ contract_id \notin SuccessSet(frame[r].snapshot)]_vars

\* a contract was accepted, its Success entry was removed by the save of the
\* other runner, and a later run submitted it again: accepted twice
C21_Witness ==
    \E contract_id \in Entities :
       /\ Has(accepted, <<start_month[1], start_month[2], contract_id>>)
       /\ accepted[<<start_month[1], start_month[2], contract_id>>] = 2
       /\ \E i, j, s, k \in 1..Len(posted) :
             /\ i < j /\ j < s /\ s < k
             /\ posted[i].kind = "post" /\ posted[i].contracts = <<contract_id>>
             /\ posted[j].kind = "lost" /\ Contains(posted[j].contracts, contract_id)
             /\ posted[j].runner # posted[i].runner
             /\ posted[s].kind = "start" /\ Contains(posted[s].contracts, contract_id)
             /\ posted[k].kind = "post" /\ posted[k].contracts = <<contract_id>>
             /\ posted[k].runner = posted[s].runner

\* the part of a state document that belongs to a service configuration
ServicePart(state, service_key) ==
    IF Has(state, service_key) THEN state[service_key] ELSE EmptyDict

\* the ledger entries of a service configuration for a month
MonthEntries(state, service_key, ym) ==
    [success |-> MonthList(state, service_key, "success_contracts", get_month_key(ym[1], ym[2])),
     error |-> MonthList(state, service_key, "error_contracts", get_month_key(ym[1], ym[2]))]

(***************************************************************************)
(* C22.  A ledger or cursor call for a service configuration and a month   *)
(* leaves as they were the whole part of the state document of every other *)
(* service configuration, cursor and entries, and the Success and Error    *)
(* entries of every other month of the same configuration.                 *)
(***************************************************************************)
C22_ScopedByServiceAndMonth ==
    (frame.entry # "")
       => /\ \A service_key \in LedgerServices \ {frame.args.service_key} :
                ServicePart(State, service_key)
                   = ServicePart(frame.state_at_entry, service_key)
          /\ \A ym \in LedgerMonths \ {CallMonth} :
                MonthEntries(State, frame.args.service_key, ym)
                   = MonthEntries(frame.state_at_entry, frame.args.service_key, ym)

\* remove_error_contract has removed the only Error entry of a month while
\* the other month of the configuration and the other configuration have
\* entries, which are still there
C22_Witness ==
    /\ frame.entry = "remove_error_contract"
    /\ MonthEntries(frame.state_at_entry, frame.args.service_key, CallMonth).error # <<>>
    /\ MonthEntries(State, frame.args.service_key, CallMonth).error = <<>>
    /\ \E ym \in LedgerMonths \ {CallMonth} :
          MonthEntries(State, frame.args.service_key, ym).error # <<>>

(***************************************************************************)
(* C23.  In dry-run mode send_to_clazar posts no request and no usage is   *)
(* accepted by the API, every contract of the batch gets a Success entry   *)
(* and the result is True; process_next_month then sets the cursor to the  *)
(* month of the call when phase A returned True too, as after a real       *)
(* submission that succeeded.                                              *)
(***************************************************************************)
C23_DryRun ==
    /\ [][/\ (pc = "send" /\ config.dry_run)
                => /\ posted' = posted
                   /\ accepted' = accepted
          /\ (/\ pc = "finish" /\ config.dry_run /\ frame.send_called
              /\ frame.entry = "process_next_month" /\ frame.retry_success)
                => CursorOf(bucket') = CallMonth]_vars
    /\ []((pc = "finish" /\ config.dry_run /\ frame.send_called)
             => /\ NoSendRequest
                /\ frame.send_success
                /\ frame.success = frame.retry_success
                /\ \A contract_id \in AggregatedContracts(frame.filtered_data) :
                      /\ HasSuccess(State, CallMonth, contract_id)
                      /\ ~HasError(State, CallMonth, contract_id))

\* a dry run of process_next_month with two contracts in the batch has moved
\* the cursor to the start month, and the API has accepted nothing
C23_Witness ==
    /\ pc = "idle"
    /\ config.dry_run
    /\ frame.result
    /\ Cursor = start_month
    /\ Len(SuccessOf(State, start_month)) = 2
    /\ accepted = EmptyDict

(***************************************************************************)
(* C24.  When get_next_month_to_process returns None, because the cursor   *)
(* has caught up with the watermark or because the export state is         *)
(* missing, cannot be parsed or gives no month, process_next_month returns *)
(* True at once: process_month is not entered, nothing is posted or        *)
(* accepted, and the bucket, with the cursor and the ledger, is as before. *)
(***************************************************************************)
C24_NoMonthIsSuccess ==
    [][(/\ pc = "idle"
        /\ get_next_month_to_process(bucket, ServiceKey, start_month) = None)
          => /\ pc' = "idle"
             /\ frame' = [IdleFrame EXCEPT !.result = TRUE]
             /\ posted' = <<>>
             /\ accepted' = accepted
             /\ bucket' = bucket]_vars

\* process_next_month has returned True where the export state cannot be
\* parsed; the cursor and the Error entry of E1 are as they were
C24_Witness ==
    /\ pc = "idle"
    /\ frame.result
    /\ Has(bucket, usage_data_state_key)
    /\ bucket[usage_data_state_key] = NotJson
    /\ Cursor = start_month
    /\ HasError(State, start_month, "E1")
    /\ posted = <<>>
    /\ accepted = EmptyDict

(***************************************************************************)
(* process_pending_months of the backlog-draining variant.                 *)
(***************************************************************************)
\* ym is a month after the month of
MonthAfter(ym, of) == TupleGe(ym, of) /\ ym # of

\* the process_month calls made by the call of process_pending_months in
\* progress, or by the last one when none is in progress
MonthsOfCall == frame.months

\* C25: the months given to process_month by one call of
\* process_pending_months are in increasing order and are at most
\* max_months; a month for which process_month returned True is followed
\* by the cursor standing at that month; a month for which it returned
\* False is the last one of the call, which then returns False with the
\* cursor at the month processed before it (or where the call found it).
C25_PendingMonths ==
    /\ \A i \in 1..Len(MonthsOfCall), j \in 1..Len(MonthsOfCall) :
          i < j => MonthAfter(MonthsOfCall[j].month, MonthsOfCall[i].month)
    /\ Len(MonthsOfCall) <= frame.max_months
    /\ \A i \in 1..Len(MonthsOfCall) :
          IF MonthsOfCall[i].success
          THEN i = Len(MonthsOfCall) => CursorOf(bucket) = MonthsOfCall[i].month
          ELSE /\ i = Len(MonthsOfCall)
               /\ pc = "idle"
               /\ frame.result = FALSE
               /\ CursorOf(bucket) = IF i > 1 THEN MonthsOfCall[i - 1].month
                                     ELSE CursorOf(save_state(EmptyDict, frame.state_at_entry))

\* a call that processed one month, failed on the next and returned
C25_Witness ==
    /\ pc = "idle"
    /\ Len(MonthsOfCall) = 2
    /\ MonthsOfCall[1].success
    /\ ~MonthsOfCall[2].success
    /\ frame.max_months = 2

\* a request is posted in this step
BatchPosts == Len(posted') = Len(posted) + 1

\* C26 (backlog-draining variant): when the response to the request of a
\* month reports errors for a contract, the contract has an Error entry for
\* the month afterwards, process_month returns True and the cursor moves to
\* that month; and no later request for the month names a contract for
\* which an earlier response reported errors.
C26_ErrorsAdvanceCursor ==
    /\ [][BatchPosts =>
            \A contract_id \in posted'[Len(posted')].errors_for :
               /\ HasError(load_state(bucket'),
                           <<posted'[Len(posted')].year, posted'[Len(posted')].month>>,
                           contract_id)
               /\ frame'.months[Len(frame'.months)].success
               /\ get_last_processed_month(bucket', ServiceKey)
                     = <<posted'[Len(posted')].year, posted'[Len(posted')].month>>]_vars
    /\ [](\A i \in 1..Len(posted), j \in 1..Len(posted) :
             (i < j /\ posted[i].year = posted[j].year /\ posted[i].month = posted[j].month)
                => \A contract_id \in posted[i].errors_for :
                      ~Contains(posted[j].contract_ids, contract_id))

\* the response for a month reported errors for E1, and the cursor has
\* moved on past that month, whose Error entry is still there
C26_Witness ==
    \E i \in 1..Len(posted) :
       /\ "E1" \in posted[i].errors_for
       /\ HasError(State, <<posted[i].year, posted[i].month>>, "E1")
       /\ Cursor # None
       /\ MonthAfter(Cursor, <<posted[i].year, posted[i].month>>)

(***************************************************************************)
(* mark_contract_month_processed and mark_contract_month_error as single   *)
(* calls.                                                                  *)
(***************************************************************************)
\* the step is a call of the ledger function named
Calls(name) == frame'.i = frame.i + 1 /\ frame'.entry = name

\* the Success and Error entries of the service and month of the call made
\* in the step, before and after it
EntriesBefore == MonthEntries(load_state(bucket), frame'.args.service_key,
                              <<frame'.year, frame'.month>>)

EntriesAfter == MonthEntries(load_state(bucket'), frame'.args.service_key,
                             <<frame'.year, frame'.month>>)

\* the Error entries of a contract in a list of them
EntriesFor(list, contract_id) ==
    SelectSeq(list, LAMBDA e : e["contract_id"] = contract_id)

Occurrences(list, v) == Cardinality({i \in 1..Len(list) : list[i] = v})

\* C27 as stated: mark_contract_month_processed called for a contract that
\* has an Error entry leaves it with a Success entry and no Error entry
C27_MarkRemovesError ==
    [][(Calls("mark_contract_month_processed")
          /\ EntriesFor(EntriesBefore.error, frame'.args.contract_id) # <<>>)
       => /\ Occurrences(EntriesAfter.success, frame'.args.contract_id) = 1
          /\ EntriesFor(EntriesAfter.error, frame'.args.contract_id) = <<>>]_vars

\* C27: mark_contract_month_processed leaves the contract exactly once in
\* the Success list of the month (appended when it was not there, the list
\* untouched when it was) and leaves the Error entries of the month as they
\* were; the contract has a Success entry and no Error entry when the call
\* follows remove_error_contract for the same contract and month.
C27_MarkProcessed ==
    [][Calls("mark_contract_month_processed")
       => /\ Occurrences(EntriesAfter.success, frame'.args.contract_id) = 1
          /\ EntriesAfter.success =
                IF Contains(EntriesBefore.success, frame'.args.contract_id)
                THEN EntriesBefore.success
                ELSE Append(EntriesBefore.success, frame'.args.contract_id)
          /\ EntriesAfter.error = EntriesBefore.error
          /\ (/\ frame.entry = "remove_error_contract"
              /\ frame.args.service_key = frame'.args.service_key
              /\ frame.args.contract_id = frame'.args.contract_id
              /\ <<frame.year, frame.month>> = <<frame'.year, frame'.month>>)
             => EntriesFor(EntriesAfter.error, frame'.args.contract_id) = <<>>]_vars

\* mark_contract_month_processed has been called twice for a contract that
\* has an Error entry for the month
C27_Witness ==
    /\ frame.entry = "mark_contract_month_processed"
    /\ Contains(MonthEntries(frame.state_at_entry, frame.args.service_key, CallMonth).success,
                frame.args.contract_id)
    /\ EntriesFor(MonthEntries(frame.state_at_entry, frame.args.service_key, CallMonth).error,
                  frame.args.contract_id) # <<>>
    /\ Occurrences(MonthEntries(State, frame.args.service_key, CallMonth).success,
                   frame.args.contract_id) = 1
    /\ EntriesFor(MonthEntries(State, frame.args.service_key, CallMonth).error,
                  frame.args.contract_id) # <<>>

\* entry.get(key) as a list: the value when the entry has the key
Opt(entry, key) == IF Has(entry, key) THEN <<entry[key]>> ELSE <<>>

\* the arguments of the mark_contract_month_error call made in the step
CallArgs == frame'.args.call

\* the Error entries of the contract of the call, before and after it
OwnBefore == EntriesFor(EntriesBefore.error, frame'.args.contract_id)

OwnAfter == EntriesFor(EntriesAfter.error, frame'.args.contract_id)

\* the Error entries of the other contracts of the month
Others(list, contract_id) == SelectSeq(list, LAMBDA e : e["contract_id"] # contract_id)

\* C28 as stated: an existing Error entry gets the code, message, payload
\* and retry_count of the latest call
C28_ReplacesWithLatest ==
    [][(Calls("mark_contract_month_error") /\ OwnBefore # <<>>)
       => /\ Len(OwnAfter) = 1
          /\ OwnAfter[1]["errors"] = OwnBefore[1]["errors"] \o CallArgs.errors
          /\ Opt(OwnAfter[1], "code")
                = IF CallArgs.code # "" THEN <<CallArgs.code>> ELSE <<>>
          /\ Opt(OwnAfter[1], "message")
                = IF CallArgs.message # "" THEN <<CallArgs.message>> ELSE <<>>
          /\ Opt(OwnAfter[1], "payload")
                = IF CallArgs.payload # None THEN <<CallArgs.payload>> ELSE <<>>
          /\ OwnAfter[1]["retry_count"] = CallArgs.retry_count]_vars

\* C28: after mark_contract_month_error the contract has exactly one Error
\* entry for the month, and the other entries of the month are as before.
\* A new entry holds the errors and retry_count of the call, and its code,
\* message and payload when the call gives them.  An existing entry gets
\* the errors appended and the retry_count replaced, and its code, message
\* and payload are replaced only by a value the call gives: where the call
\* gives none, the entry keeps what it had.
C28_MarkError ==
    [][Calls("mark_contract_month_error")
       => /\ Len(OwnAfter) = 1
          /\ Len(OwnBefore) <= 1
          /\ EntriesAfter.success = EntriesBefore.success
          /\ Others(EntriesAfter.error, frame'.args.contract_id)
                = Others(EntriesBefore.error, frame'.args.contract_id)
          /\ OwnAfter[1]["retry_count"] = CallArgs.retry_count
          /\ OwnAfter[1]["errors"] = (IF OwnBefore = <<>> THEN <<>> ELSE OwnBefore[1]["errors"])
                                        \o CallArgs.errors
          /\ Opt(OwnAfter[1], "code")
                = IF CallArgs.code # "" THEN <<CallArgs.code>>
                  ELSE IF OwnBefore = <<>> THEN <<>> ELSE Opt(OwnBefore[1], "code")
          /\ Opt(OwnAfter[1], "message")
                = IF CallArgs.message # "" THEN <<CallArgs.message>>
                  ELSE IF OwnBefore = <<>> THEN <<>> ELSE Opt(OwnBefore[1], "message")
          /\ Opt(OwnAfter[1], "payload")
                = IF CallArgs.payload # None THEN <<CallArgs.payload>>
                  ELSE IF OwnBefore = <<>> THEN <<>> ELSE Opt(OwnBefore[1], "payload")]_vars

\* mark_contract_month_error has been called without code, message and
\* payload for a contract whose Error entry had them, and the entry has
\* kept them under the new retry_count
C28_Witness ==
    /\ frame.entry = "mark_contract_month_error"
    /\ frame.args.call.payload = None
    /\ frame.args.call.code = ""
    /\ LET before == EntriesFor(MonthEntries(frame.state_at_entry, frame.args.service_key,
                                             CallMonth).error, frame.args.contract_id)
           after == EntriesFor(MonthEntries(State, frame.args.service_key, CallMonth).error,
                               frame.args.contract_id)
       IN  /\ Len(before) = 1
           /\ Has(before[1], "payload")
           /\ Len(after) = 1
           /\ Opt(after[1], "payload") = <<before[1]["payload"]>>
           /\ Opt(after[1], "code") = <<before[1]["code"]>>
           /\ after[1]["retry_count"] = frame.args.call.retry_count
           /\ after[1]["retry_count"] # before[1]["retry_count"]
           /\ Len(after[1]["errors"]) = Len(before[1]["errors"]) + 1

(***************************************************************************)
(* retry_error_contracts (phase A).                                        *)
(***************************************************************************)
\* retry_error_contracts has returned and process_month has not gone on
AfterPhaseA == pc = "list"

\* the Error entries of the month that the call found
EntriesAtEntry == ErrorsOf(frame.state_at_entry, CallMonth)

\* the contracts that had an Error entry with retry_count < max_retries
Retryable ==
    {EntriesAtEntry[i]["contract_id"] :
        i \in {j \in 1..Len(EntriesAtEntry) :
                  RetryCountOf(EntriesAtEntry[j]) < config.max_retries}}

\* those of them whose entry holds a payload
RetryableWithPayload ==
    {EntriesAtEntry[i]["contract_id"] :
        i \in {j \in 1..Len(EntriesAtEntry) :
                  /\ RetryCountOf(EntriesAtEntry[j]) < config.max_retries
                  /\ Has(EntriesAtEntry[j], "payload")
                  /\ Truthy(EntriesAtEntry[j]["payload"])}}

\* the payload stored for the contract when the call began
StoredPayload(contract_id) ==
    (CHOOSE e \in ErrorEntriesOf(frame.state_at_entry, CallMonth, contract_id) : TRUE)["payload"]

RetriedContracts == {posted[i].contract_id : i \in 1..Len(posted)}

\* C29 as stated: phase A posts the stored payload of exactly the contracts
\* that had an Error entry with retry_count < max_retries, and returns True
\* only if each of them has a Success entry
C29_RetriesEveryRetryable ==
    AfterPhaseA =>
       /\ RetriedContracts = Retryable
       /\ \A i \in 1..Len(posted) :
             /\ posted[i].phase = "retry"
             /\ posted[i].payload = StoredPayload(posted[i].contract_id)
       /\ frame.retry_success =>
             \A contract_id \in Retryable : HasSuccess(State, CallMonth, contract_id)

\* C29: phase A makes requests for no contract other than those that had
\* an Error entry with retry_count < max_retries and a stored payload, each
\* request carrying that payload; outside dry-run mode it makes a request
\* for each of them, in dry-run mode it makes none and gives each of them a
\* Success entry.  An entry without payload is passed over.  Phase A
\* returns True exactly when each contract it took up has ended with a
\* Success entry and no Error entry.
C29_PhaseA ==
    AfterPhaseA =>
       /\ RetriedContracts = IF config.dry_run THEN {} ELSE RetryableWithPayload
       /\ \A i \in 1..Len(posted) :
             /\ posted[i].phase = "retry"
             /\ posted[i].payload = StoredPayload(posted[i].contract_id)
       /\ frame.retry_success =
             \A contract_id \in RetryableWithPayload :
                /\ HasSuccess(State, CallMonth, contract_id)
                /\ ~HasError(State, CallMonth, contract_id)
       /\ \A contract_id \in Entities \ RetryableWithPayload :
             /\ HasSuccess(State, CallMonth, contract_id)
                   = HasSuccess(frame.state_at_entry, CallMonth, contract_id)
             /\ ErrorEntriesOf(State, CallMonth, contract_id)
                   = ErrorEntriesOf(frame.state_at_entry, CallMonth, contract_id)

\* phase A has returned True after a request for E1, which now has a
\* Success entry, while E2, whose entry holds no payload, was passed over
C29_Witness ==
    /\ AfterPhaseA
    /\ frame.retry_success
    /\ RetriedContracts = {"E1"}
    /\ HasSuccess(State, CallMonth, "E1")
    /\ "E2" \in Retryable \ RetryableWithPayload
    /\ HasError(State, CallMonth, "E2")

(***************************************************************************)
(* Responses with a status other than "success" and no errors.             *)
(***************************************************************************)
\* the requests of the call in progress whose response had such a status
Warned == {i \in 1..Len(posted) : posted[i].warning}

\* C30: a request answered with status 200 and results that carry a
\* status other than "success" but no errors is taken as a success: it is
\* the last request of the call for its contract, the contract has a
\* Success entry and no Error entry, and the step that receives the
\* response adds nothing to the Error entries of the month.
C30_WarningIsSuccess ==
    /\ [](\A i \in Warned :
             /\ posted[i].outcome = "success"
             /\ IsLastRequest(i)
             /\ HasSuccess(State, CallMonth, posted[i].contract_id)
             /\ ~HasError(State, CallMonth, posted[i].contract_id))
    /\ [][(Len(posted') = Len(posted) + 1 /\ posted'[Len(posted')].warning)
          => /\ Has(accepted', <<frame.year, frame.month, posted'[Len(posted')].contract_id>>)
             /\ \A contract_id \in Entities :
                   ErrorEntriesOf(load_state(bucket'), CallMonth, contract_id)
                      \subseteq ErrorEntriesOf(State, CallMonth, contract_id)]_vars

\* the first request for E1 was answered with a warning status and the
\* call has gone on to E2, E1 having a Success entry
C30_Witness ==
    /\ Len(posted) = 2
    /\ posted[1].warning
    /\ posted[1].contract_id = "E1"
    /\ posted[2].contract_id = "E2"
    /\ HasSuccess(State, CallMonth, "E1")
    /\ ~HasError(State, CallMonth, "E1")

(***************************************************************************)
(* The number of requests made for a contract.                             *)
(***************************************************************************)
RetryOutcomes(contract_id) ==
    {i \in 1..Len(posted) : posted[i].phase = "retry" /\ posted[i].contract_id = contract_id}

\* the retry_count stored for the contract in a state document
StoredRetryCount(state, contract_id) ==
    RetryCountOf(CHOOSE e \in ErrorEntriesOf(state, CallMonth, contract_id) : TRUE)

\* a request of phase A is posted in this step and fails
FailedRetry ==
    /\ Len(posted') = Len(posted) + 1
    /\ posted'[Len(posted')].phase = "retry"
    /\ posted'[Len(posted')].outcome # "success"

\* C31: in one call send_to_clazar posts at most max_retries + 1 requests
\* for a contract; retry_error_contracts posts at most max_retries - r
\* requests for a contract whose Error entry had retry_count r when the
\* call began, and each request of it that fails leaves the stored
\* retry_count one higher than it was.
C31_AttemptBounds ==
    /\ [](\A contract_id \in Entities :
             /\ Cardinality(SendOutcomes(contract_id)) <= config.max_retries + 1
             /\ RetryOutcomes(contract_id) # {}
                   => Cardinality(RetryOutcomes(contract_id))
                         <= config.max_retries
                               - StoredRetryCount(frame.state_at_entry, contract_id))
    /\ [][FailedRetry
          => StoredRetryCount(load_state(bucket'), posted'[Len(posted')].contract_id)
                = StoredRetryCount(State, posted'[Len(posted')].contract_id) + 1]_vars

\* one call in which the retry of E1 failed, raising its retry_count from
\* 0 to 1, and E2 was then sent max_retries + 1 times
C31_Witness ==
    /\ config.max_retries = 1
    /\ Cardinality(RetryOutcomes("E1")) = 1
    /\ HasError(frame.state_at_entry, CallMonth, "E1")
    /\ StoredRetryCount(frame.state_at_entry, "E1") = 0
    /\ HasError(State, CallMonth, "E1")
    /\ StoredRetryCount(State, "E1") = 1
    /\ Cardinality(SendOutcomes("E2")) = 2

(***************************************************************************)
(* The waits of send_to_clazar.                                            *)
(***************************************************************************)
\* the number of requests of send_to_clazar for the contract before request i
AttemptOf(i) ==
    Cardinality({j \in SendOutcomes(posted[i].contract_id) : j < i})

RECURSIVE SumOfWaits(_)
\* the sum of the waits of a set of requests
SumOfWaits(requests) ==
    IF requests = {} THEN 0
    ELSE LET i == CHOOSE j \in requests : TRUE
         IN  posted[i].wait + SumOfWaits(requests \ {i})

\* every attempt of send_to_clazar for the contract has failed
AllAttemptsFailed(contract_id) ==
    /\ Cardinality(SendOutcomes(contract_id)) = config.max_retries + 1
    /\ \A i \in SendOutcomes(contract_id) : posted[i].outcome # "success"

\* C32: the first request of send_to_clazar for a contract is made
\* without a wait and the request of attempt k >= 1 after a wait of 2^k;
\* a contract for which every attempt failed has waited
\* 2^(max_retries + 1) - 2 in all.
C32_Backoff ==
    /\ \A i \in 1..Len(posted) :
          posted[i].phase = "send"
             => posted[i].wait = IF AttemptOf(i) = 0 THEN 0 ELSE Pow2(AttemptOf(i))
    /\ \A contract_id \in Entities :
          AllAttemptsFailed(contract_id)
             => SumOfWaits(SendOutcomes(contract_id)) = Pow2(config.max_retries + 1) - 2

\* E1 has failed all four attempts made with MAX_RETRIES 3
C32_Witness ==
    /\ config.max_retries = 3
    /\ AllAttemptsFailed("E1")
    /\ SumOfWaits(SendOutcomes("E1")) = 14

(***************************************************************************)
(* Storage failures.                                                       *)
(***************************************************************************)
\* the failures of the listing and the reads of the call in progress
Failures == frame.args[1]

\* the call has listed and read, with at least one failure
StorageFailed ==
    /\ pc \in {"send", "finish"}
    /\ frame.args # <<>>
    /\ Failures.list_fails \/ Failures.unreadable # {}

RECURSIVE RecordsOfFiles(_, _, _)
\* the records of the files that could be read, from file i on
RecordsOfFiles(files, unreadable, i) ==
    IF i > Len(files) THEN <<>>
    ELSE (IF i \in unreadable THEN <<>> ELSE files[i])
            \o RecordsOfFiles(files, unreadable, i + 1)

\* the contracts that have usage in the stored files of the month
StoredContracts(ym) == RawContracts(Concat(StoredFiles(ym)))

\* C33: when the listing of the month or the read of some of its files
\* fails, process_month goes on with the records of the files it could
\* read (none when the listing failed) and does not fail for it: it
\* returns True when every request it made has succeeded in the end, and
\* process_next_month then moves the cursor to the month.  No request is
\* made for a month the cursor has reached, so usage that could not be
\* read is not submitted later.
C33_StorageFailureIsAbsentData ==
    /\ [](StorageFailed =>
             frame.all_usage_records =
                IF Failures.list_fails THEN <<>>
                ELSE RecordsOfFiles(StoredFiles(CallMonth), Failures.unreadable, 1))
    /\ []((StorageFailed /\ pc = "finish"
             /\ \A i \in 1..Len(posted) : IsLastRequest(i) => posted[i].outcome = "success")
          => frame.success)
    /\ [][(StorageFailed /\ pc = "finish" /\ pc' = "idle" /\ frame.success)
          => get_last_processed_month(bucket', ServiceKey) = CallMonth]_vars
    /\ [][Len(posted') = Len(posted) + 1
          => (Cursor = None \/ MonthAfter(CallMonth, Cursor))]_vars

\* the file with the usage of E2 could not be read, the usage of E1 was
\* submitted and accepted, and the cursor has moved to the month, for
\* which E2 has no entry and nothing of E2 was accepted
C33_Witness ==
    /\ pc = "idle"
    /\ Cursor = start_month
    /\ "E2" \in StoredContracts(start_month)
    /\ HasSuccess(State, start_month, "E1")
    /\ Has(accepted, <<start_month[1], start_month[2], "E1">>)
    /\ ~HasSuccess(State, start_month, "E2")
    /\ ~HasError(State, start_month, "E2")
    /\ ~Has(accepted, <<start_month[1], start_month[2], "E2">>)

(***************************************************************************)
(* C34.  The watermark computed from last_processed_to is never a month    *)
(* whose last hour lies after last_processed_to: the month of the          *)
(* timestamp is returned only when the timestamp is at the end of that     *)
(* month's last day (23:59), otherwise the month before it, January giving *)
(* December of the year before.                                            *)
(***************************************************************************)
\* last_processed_to of the service as the export state holds it
StoredStamp == load_usage_data_state(bucket)[ServiceKey]["last_processed_to"]

HasStoredStamp ==
    /\ Has(load_usage_data_state(bucket), ServiceKey)
    /\ strptime(StoredStamp).ok

\* the first second of the last hour of the month
LastHourOf(ym) == <<ym[1], ym[2], DaysInMonth(ym[1], ym[2]), 23, 0, 0>>

C34_WatermarkComplete ==
    (frame.entry = "get_next_month_to_process" /\ HasStoredStamp)
        => /\ StampBefore(LastHourOf(Watermark), StoredStamp)
           /\ Watermark = IF /\ StoredStamp[3] = DaysInMonth(StoredStamp[1], StoredStamp[2])
                             /\ StoredStamp[4] = 23
                             /\ StoredStamp[5] = 59
                          THEN <<StoredStamp[1], StoredStamp[2]>>
                          ELSE PrevMonthOf(<<StoredStamp[1], StoredStamp[2]>>)

(***************************************************************************)
(* C35.  Within one process_month call a contract is submitted by at most  *)
(* one of the two phases: when phase A has ended, every contract it        *)
(* handled has a Success or an Error entry for the month, and the batch    *)
(* phase B sends holds none of them.                                       *)
(***************************************************************************)
InProcessMonth == frame.entry \in {"process_month", "process_next_month"} /\ pc # "idle"

\* the contracts that phase A handled in this call, submitted or dry run
HandledByPhaseA == RetryableWithPayload

\* the contracts of the batch handed to send_to_clazar
PhaseBContracts ==
    {frame.contract_records[i].contract_id : i \in 1..Len(frame.contract_records)}

C35_OnePhasePerContract ==
    InProcessMonth =>
       /\ \A contract_id \in Entities :
             RetryOutcomes(contract_id) = {} \/ SendOutcomes(contract_id) = {}
       /\ pc \in {"list", "send", "finish"} =>
             /\ \A contract_id \in HandledByPhaseA :
                   \/ HasSuccess(State, CallMonth, contract_id)
                   \/ HasError(State, CallMonth, contract_id)
             /\ \A i \in 1..Len(posted) :
                   posted[i].phase = "retry" => posted[i].contract_id \in HandledByPhaseA
             /\ PhaseBContracts \cap HandledByPhaseA = {}

\* E1 was submitted by phase A and failed again, its usage is in the files
\* of the month, and phase B submitted E2 only
C35_Witness ==
    /\ InProcessMonth
    /\ pc = "finish"
    /\ RetryOutcomes("E1") # {}
    /\ HasError(State, CallMonth, "E1")
    /\ "E1" \in RawContracts(frame.all_usage_records)
    /\ SendOutcomes("E2") # {}
    /\ SendOutcomes("E1") = {}

(***************************************************************************)
(* C36.  When load_state meets a storage error other than a missing key,   *)
(* or a document that does not parse, it returns the empty state, and the  *)
(* ledger or cursor write that follows saves a document holding only the   *)
(* key it writes: the Success entries, Error entries and cursors that were *)
(* stored for every service configuration are gone, and a configuration    *)
(* whose cursor is gone starts again at the default start month.           *)
(***************************************************************************)
\* the state file holds something that the step's load_state cannot return
Unreadable ==
    \/ frame'.args.read = "client error"
    \/ Has(bucket, state_file_path) /\ bucket[state_file_path] = NotJson

\* a write is made in the step by a call that could not read the state file
WriteAfterFailedLoad == frame'.i = frame.i + 1 /\ Unreadable

NoEntries == [success |-> <<>>, error |-> <<>>]

C36_FailedLoadLosesState ==
    [][WriteAfterFailedLoad =>
          LET after == load_state(bucket')
              key == frame'.args.service_key
              own == MonthEntries(after, key, start_month)
              contract_id == frame'.args.contract_id
          IN  /\ frame'.state_at_entry = EmptyDict
              /\ DOMAIN after = {key}
              /\ \A s \in LedgerServices \ {key} :
                    /\ MonthEntries(after, s, start_month) = NoEntries
                    /\ get_last_processed_month(bucket', s) = None
                    /\ get_next_month_to_process(bucket', s, start_month) = start_month
              /\ frame'.entry = "update_last_processed_month" =>
                    /\ own = NoEntries
                    /\ get_last_processed_month(bucket', key) = start_month
              /\ frame'.entry = "mark_contract_month_processed" =>
                    /\ own.success = <<contract_id>> /\ own.error = <<>>
                    /\ get_last_processed_month(bucket', key) = None
                    /\ get_next_month_to_process(bucket', key, start_month) = start_month
              /\ frame'.entry = "mark_contract_month_error" =>
                    /\ own.success = <<>> /\ Len(own.error) = 1
                    /\ own.error[1]["contract_id"] = contract_id
                    /\ get_last_processed_month(bucket', key) = None
                    /\ get_next_month_to_process(bucket', key, start_month) = start_month
      ]_vars

\* a cursor and a Success entry of one configuration were stored, a write
\* for the other configuration could not read the file, and the first
\* configuration is back at the default start month with no entry
C36_Witness ==
    /\ frame.i = MaxCalls
    /\ frame.args # <<>>
    /\ frame.args.service_key = OtherServiceKey
    /\ frame.args.read = "client error"
    /\ frame.entry = "mark_contract_month_error"
    /\ Has(frame.args.stored, ServiceKey)
    /\ Has(frame.args.stored[ServiceKey], "last_processed_month")
    /\ MonthEntries(frame.args.stored, ServiceKey, start_month).success = <<"E1">>
    /\ DOMAIN load_state(bucket) = {OtherServiceKey}
    /\ get_next_month_to_process(bucket, ServiceKey, start_month) = start_month

(***************************************************************************)
(* C37.  Liveness: when the API accepts every request, every read and      *)
(* write of the bucket succeeds, no custom formula fails and the watermark *)
(* W stays where it is, at or after the default start month, repeated      *)
(* process_next_month runs bring the cursor to W; from then on a run finds *)
(* no month to process, returns True and changes nothing.                  *)
(***************************************************************************)
\* no run is in progress, the last one returned True, and the next finds no
\* month to process
CaughtUp ==
    /\ pc = "idle"
    /\ frame.result = TRUE
    /\ Cursor = Watermark
    /\ get_next_month_to_process(bucket, ServiceKey, start_month) = None

C37_ReachesWatermark ==
    /\ <>[]CaughtUp
    /\ [][CaughtUp => (bucket' = bucket /\ accepted' = accepted /\ posted' = <<>>
                          /\ pc' = "idle" /\ frame'.result = TRUE)]_vars

\* the cursor has come to a watermark after the default start month by runs
\* that submitted the usage of E1 for both months
C37_Witness ==
    /\ CaughtUp
    /\ Cursor = MonthAt(1)
    /\ HasSuccess(State, start_month, "E1")
    /\ HasSuccess(State, MonthAt(1), "E1")

(***************************************************************************)
(* C38.  Every process_next_month run ends, whatever the API answers, as   *)
(* long as each HTTP call returns or raises: while phase A or phase B      *)
(* stays on one contract its counter goes up by one with every attempt and *)
(* stays within max_retries, no contract gets more than max_retries        *)
(* requests in phase A or max_retries + 1 in phase B, and a run in         *)
(* progress always comes to its return.                                    *)
(***************************************************************************)
\* the step is one more attempt of phase A for the same Error entry
SameRetryEntry == pc = "retry" /\ pc' = "retry" /\ frame'.i = frame.i

\* the step is one more attempt of phase B for the same contract
SameSendContract == pc = "send" /\ pc' = "send" /\ frame'.i = frame.i

CountersBounded ==
    /\ pc = "retry" => frame.current_retry < config.max_retries
    /\ pc = "send" => frame.attempt <= config.max_retries
    /\ \A contract_id \in Entities :
          /\ Cardinality(RetryOutcomes(contract_id)) <= config.max_retries
          /\ Cardinality(SendOutcomes(contract_id)) <= config.max_retries + 1

C38_RunTerminates ==
    /\ []CountersBounded
    /\ [][/\ SameRetryEntry => frame'.current_retry = frame.current_retry + 1
          /\ SameSendContract => frame'.attempt = frame.attempt + 1]_vars
    /\ (pc # "idle") ~> (pc = "idle")

\* a run that got a failure for every request it could make has returned
\* False: E1 failed max_retries + 1 times in phase B
C38_Witness ==
    /\ pc = "finish"
    /\ frame.entry = "process_next_month"
    /\ ~frame.success
    /\ config.max_retries = MaxRetriesBound
    /\ Cardinality(SendOutcomes("E1")) = MaxRetriesBound + 1
    /\ \A i \in SendOutcomes("E1") : posted[i].outcome # "success"

(***************************************************************************)
(* C39.  Resumability: when a run is killed at any point, also between the *)
(* success response of the API and the ledger writes that follow it        *)
(* (remove_error_contract, then mark_contract_month_processed), a later    *)
(* run never submits again a contract whose request for the month the API  *)
(* has accepted, and between runs no such contract is without both a       *)
(* Success and an Error entry.                                             *)
(***************************************************************************)
\* the contracts and months of the requests the API accepted
AcceptedKeys == DOMAIN accepted

\* a request is posted in the step
PostsRequest == Len(posted') = Len(posted) + 1

C39_ResumableAfterInterrupt ==
    /\ [](\A k \in AcceptedKeys : accepted[k] <= 1)
    /\ [](pc = "idle" =>
             \A k \in AcceptedKeys :
                \/ HasSuccess(State, <<k[1], k[2]>>, k[3])
                \/ HasError(State, <<k[1], k[2]>>, k[3]))
    /\ [][PostsRequest =>
             LET req == posted'[Len(posted')]
             IN  ~Has(accepted, <<frame.year, frame.month, req.contract_id>>)]_vars

(***************************************************************************)
(* C40.  Runs for two different service configurations that share a state  *)
(* file do not interfere: however their load_state and save_state steps    *)
(* interleave, a save made for one configuration leaves the part of the    *)
(* document of the other as it was, so that when both runs have ended each *)
(* configuration has the Success entries and the cursor written for it.    *)
(***************************************************************************)
\* the part of the state document of a service configuration
PartOf(b, service_key) ==
    IF Has(load_state(b), service_key) THEN load_state(b)[service_key] ELSE EmptyDict

\* the runner saves in the step
SavesInStep(r) == pc[r] = "save" /\ pc'[r] # "save"

\* what the calls of one run write
WrittenByRun(b, service_key) ==
    /\ MonthEntries(load_state(b), service_key, start_month).success = <<"E1", "E2">>
    /\ get_last_processed_month(b, service_key) = start_month

C40_NoInterference ==
    /\ [][\A r \in Runners :
             SavesInStep(r) =>
                \A other \in Runners \ {r} :
                   PartOf(bucket', ServiceOf(other)) = PartOf(bucket, ServiceOf(other))]_vars
    /\ []((\A r \in Runners : pc[r] = "done")
             => \A r \in Runners : WrittenByRun(bucket, ServiceOf(r)))

====
